---- MODULE Spec2Model ----
(***************************************************************************)
(* A model of the emily-draw colouring engine: region lookup with          *)
(* boundary tolerance (lib/regionDetection.ts), layer and mask generation  *)
(* and the clipped stroke renderer (lib/layerGeneration.ts), and the       *)
(* stroke controller with its undo/redo history (components/Canvas.tsx).   *)
(*                                                                         *)
(* Conventions                                                             *)
(*  - A pixel is a record [c, a]: one colour channel c (the three colour   *)
(*    channels of the program always move together for a given ink) and    *)
(*    the alpha channel a, both bytes 0..255.                              *)
(*  - An ImageData / canvas bitmap is a function from the linear pixel     *)
(*    index y*width+x to a pixel.                                          *)
(*  - A JavaScript number handed to a lookup function is given in half     *)
(*    pixels (the integer 2*v stands for v), so that Math.round is not the *)
(*    identity.  Canvas coordinates are whole pixels: getCanvasCoordinates *)
(*    floors them.                                                         *)
(*  - null is <<>> for an optional point and 0 for an optional layer       *)
(*    (layers are numbered from 1 in the sequence `layers`).               *)
(***************************************************************************)
EXTENDS Integers, Sequences, FiniteSets, TLC

VARIABLES
    \* ---- data built at load time
    regionMap,              \* RegionMap handed to generateLayers
    layers,                 \* DrawingLayer[]: <<[id, mask]>>; the canvas of layer i is surface[i]
    surface,                \* surface[i]: bitmap of layers[i].canvas
    lookupTable,            \* LayerLookupTable [width, height, data]
    \* ---- Canvas.tsx component state
    isDrawing,              \* useState(false)
    activeLayerRef,         \* index into layers, 0 = null
    lastPointRef,           \* <<>> = null, else <<[x, y]>>
    hasMovedRef,
    hasStateCapturedRef,
    lastGlobalPositionRef,  \* <<>> = null, else <<[x, y]>>
    lastEventTimeRef,       \* 0 as initialised, 1 once a pointerdown has stored Date.now()
    undoStackRef,           \* sequence of snapshots (layer id -> bitmap)
    redoStackRef,
    rafQueue,               \* callbacks handed to requestAnimationFrame, not yet run
    \* ---- props of Canvas, owned by DrawingScreen.  The brush props (isEraser,
    \* brushType, brushSize) may change between any two events and are read
    \* afresh by every render: each handler takes them as its input `brush`.
    stayWithinLines,
    \* ---- the pointer, as the browser sees it
    overCanvas,             \* the pointer is over the container
    buttons,                \* event.buttons: 1 = primary button held
    gesture,                \* how the current press of the button began
    nEvents,                \* events delivered so far
    lastEvent,              \* the event delivered last
    \* ---- history variables: they record the past for the properties below and
    \* are read by no handler
    phase,                  \* "open": an accepted pointerdown and only moves since;
                            \* "done": that gesture ended with pointerup; else "idle"
    preGesture,             \* the surfaces just before the last accepted pointerdown
    snapshotTaken,          \* a snapshot was pushed since the button last went down
    \* ---- the last call of a library function (pure-function checks)
    call,
    \* ---- app/page.tsx: the state of Home
    selectedImage,          \* id of the chosen gallery image, 0 = null
    processedData,          \* <<>> = null, else <<[regionMap]>>
    pending,                \* where the processImage promise of handleImageSelect stands
    \* ---- unnamed/part_005: the Canvas that tests sample points with tolerance
    \* (it shares regionMap, isDrawing and lastPointRef with the declarations above)
    lockedRegionId,         \* useState<number | null>(null), 0 = null
    segmentedPath,          \* the strokes its last pointermove issued, and from what
    \* ---- unnamed/part_002: detectRegions run one loop iteration at a time
    detect,                 \* the frame of detectRegions: its locals and where it stands
    fill                    \* the frame of the floodFillRegion call it is waiting for

loadVars  == <<regionMap, layers, lookupTable>>
libVars   == <<regionMap, layers, surface, lookupTable>>
stateVars == <<isDrawing, activeLayerRef, lastPointRef, hasMovedRef,
               hasStateCapturedRef, lastGlobalPositionRef, lastEventTimeRef>>
histVars  == <<undoStackRef, redoStackRef>>
progVars  == <<surface, stateVars, histVars, rafQueue>>
envVars   == <<overCanvas, buttons, gesture>>
stepVars  == <<nEvents, lastEvent>>
ghostVars == <<phase, preGesture, snapshotTaken>>
appVars   == <<selectedImage, processedData, pending>>
tolVars   == <<lockedRegionId, segmentedPath>>
segVars   == <<detect, fill>>
vars      == <<libVars, stateVars, histVars, rafQueue, stayWithinLines, envVars,
               stepVars, ghostVars, call, appVars, tolVars, segVars>>

-----------------------------------------------------------------------------
(* Bounds of the model *)

\* width and height of the outline images the library functions are tried on
MapW == 3
MapH == 2
\* largest minRegionSize handed to detectRegions
MaxMinRegionSize == 2
\* largest tolerance radius handed to getRegionAtWithTolerance
MaxTolerance == 2
\* side of the square scenario image with a closed square outline in its centre
SceneSize == 5
\* width and height of the canvas of the drawing session
CanvasW == 3
CanvasH == 1
\* brush diameters of the session, in pixels of that canvas
BrushSmall == 1
BrushLarge == 3
\* most events (pointer events, frames, history calls, prop changes) of one session
MaxEvents == 6

(* Program constants *)

OPAQUE_ALPHA == 255
TRANSPARENT_ALPHA == 0
NO_LAYER_SENTINEL == 65535
BOUNDARY_THRESHOLD == 128
\* the marker of a boundary pixel in pixelToRegion
BOUNDARY == 0 - 1
\* the colour channel of the ink of fillColor ("#FF0000": green = 0)
fillColor == 0

-----------------------------------------------------------------------------
(* Numbers *)

\* Math.round on a number given in half pixels: halves round towards +Infinity
MathRound(h) == (h + 1) \div 2

Min(a, b) == IF a < b THEN a ELSE b
Max(a, b) == IF a > b THEN a ELSE b

-----------------------------------------------------------------------------
(* lib/regionDetection.ts: region detection *)

\* the colours of a line-art outline
Black    == [r |-> 0, g |-> 0, b |-> 0]
WhiteRGB == [r |-> 255, g |-> 255, b |-> 255]

\* lib/floodFill.ts: the channels of the pixel, as stored
getPixelColor(imageData, x, y) == imageData.data[y * imageData.width + x]

\* isBoundaryPixel counting a pixel whose brightness equals the threshold
isBoundaryPixelAtMost(color, threshold) == color.r + color.g + color.b <= 3 * threshold

\* isBoundaryPixel with the comparison turned round
isBoundaryPixelInverted(color, threshold) == color.r + color.g + color.b > 3 * threshold

\* lib/canvasUtils.ts: brightness (r + g + b) / 3 < threshold, both sides
\* times 3; color.a is not read
isBoundaryPixel(color, threshold) == color.r + color.g + color.b < 3 * threshold

\* floodFillRegion pushing the four diagonal neighbours too
RECURSIVE FloodFromWithDiagonals(_, _, _, _)
FloodFromWithDiagonals(pixelToRegion, width, height, pixels) ==
    LET more == { q \in (0 .. width - 1) \X (0 .. height - 1) :
                    /\ q \notin pixels
                    /\ pixelToRegion[q[2]][q[1]] = 0
                    /\ \E p \in pixels :
                         /\ q[1] - p[1] \in {0 - 1, 0, 1}
                         /\ q[2] - p[2] \in {0 - 1, 0, 1} }
    IN  IF more = {} THEN pixels
        ELSE FloodFromWithDiagonals(pixelToRegion, width, height, pixels \cup more)

\* the pixels the stack of floodFillRegion reaches from `pixels` through
\* unassigned pixels, 4-connected
RECURSIVE FloodFrom(_, _, _, _)
FloodFrom(pixelToRegion, width, height, pixels) ==
    LET more == { q \in (0 .. width - 1) \X (0 .. height - 1) :
                    /\ q \notin pixels
                    /\ pixelToRegion[q[2]][q[1]] = 0
                    /\ \E p \in pixels :
                         \/ (q[1] = p[1] + 1 /\ q[2] = p[2])
                         \/ (q[1] = p[1] - 1 /\ q[2] = p[2])
                         \/ (q[1] = p[1] /\ q[2] = p[2] + 1)
                         \/ (q[1] = p[1] /\ q[2] = p[2] - 1) }
    IN  IF more = {} THEN pixels
        ELSE FloodFrom(pixelToRegion, width, height, pixels \cup more)

\* the pixels of the region of the unassigned pixel (startX, startY); the
\* caller's pixelToRegion is marked with regionId on them (MarkRegion)
floodFillRegion(imageData, pixelToRegion, startX, startY, regionId) ==
    FloodFrom(pixelToRegion, imageData.width, imageData.height, {<<startX, startY>>})

MarkRegion(pixelToRegion, pixels, id) ==
    [y \in DOMAIN pixelToRegion |->
       [x \in DOMAIN pixelToRegion[y] |->
          IF <<x, y>> \in pixels THEN id ELSE pixelToRegion[y][x]]]

\* detectRegions advancing currentRegionId for a discarded area too
RECURSIVE ScanRegionsCountingAll(_, _, _, _, _, _)
ScanRegionsCountingAll(imageData, pixelToRegion, idx, currentRegionId, regionCount, minRegionSize) ==
    IF idx >= imageData.width * imageData.height
    THEN [width         |-> imageData.width,
          height        |-> imageData.height,
          regionCount   |-> regionCount,
          pixelToRegion |-> pixelToRegion]
    ELSE LET x == idx % imageData.width
             y == idx \div imageData.width
         IN  IF pixelToRegion[y][x] # 0
             THEN ScanRegionsCountingAll(imageData, pixelToRegion, idx + 1, currentRegionId,
                              regionCount, minRegionSize)
             ELSE LET regionPixels ==
                          floodFillRegion(imageData, pixelToRegion, x, y, currentRegionId)
                  IN  IF Cardinality(regionPixels) >= minRegionSize
                      THEN ScanRegionsCountingAll(imageData,
                                       MarkRegion(pixelToRegion, regionPixels, currentRegionId),
                                       idx + 1, currentRegionId + 1, regionCount + 1,
                                       minRegionSize)
                      ELSE ScanRegionsCountingAll(imageData,
                                       MarkRegion(pixelToRegion, regionPixels, BOUNDARY),
                                       idx + 1, currentRegionId + 1, regionCount, minRegionSize)

\* detectRegions keeping only areas of more than minRegionSize pixels
RECURSIVE ScanRegionsStrict(_, _, _, _, _, _)
ScanRegionsStrict(imageData, pixelToRegion, idx, currentRegionId, regionCount, minRegionSize) ==
    IF idx >= imageData.width * imageData.height
    THEN [width         |-> imageData.width,
          height        |-> imageData.height,
          regionCount   |-> regionCount,
          pixelToRegion |-> pixelToRegion]
    ELSE LET x == idx % imageData.width
             y == idx \div imageData.width
         IN  IF pixelToRegion[y][x] # 0
             THEN ScanRegionsStrict(imageData, pixelToRegion, idx + 1, currentRegionId,
                              regionCount, minRegionSize)
             ELSE LET regionPixels ==
                          floodFillRegion(imageData, pixelToRegion, x, y, currentRegionId)
                  IN  IF Cardinality(regionPixels) > minRegionSize
                      THEN ScanRegionsStrict(imageData,
                                       MarkRegion(pixelToRegion, regionPixels, currentRegionId),
                                       idx + 1, currentRegionId + 1, regionCount + 1,
                                       minRegionSize)
                      ELSE ScanRegionsStrict(imageData,
                                       MarkRegion(pixelToRegion, regionPixels, BOUNDARY),
                                       idx + 1, currentRegionId, regionCount, minRegionSize)

\* detectRegions without the loop that relabels a discarded area -1
RECURSIVE ScanRegionsKeepingDiscardedIds(_, _, _, _, _, _)
ScanRegionsKeepingDiscardedIds(imageData, pixelToRegion, idx, currentRegionId, regionCount, minRegionSize) ==
    IF idx >= imageData.width * imageData.height
    THEN [width         |-> imageData.width,
          height        |-> imageData.height,
          regionCount   |-> regionCount,
          pixelToRegion |-> pixelToRegion]
    ELSE LET x == idx % imageData.width
             y == idx \div imageData.width
         IN  IF pixelToRegion[y][x] # 0
             THEN ScanRegionsKeepingDiscardedIds(imageData, pixelToRegion, idx + 1,
                              currentRegionId, regionCount, minRegionSize)
             ELSE LET regionPixels ==
                          floodFillRegion(imageData, pixelToRegion, x, y, currentRegionId)
                  IN  IF Cardinality(regionPixels) >= minRegionSize
                      THEN ScanRegionsKeepingDiscardedIds(imageData,
                                       MarkRegion(pixelToRegion, regionPixels, currentRegionId),
                                       idx + 1, currentRegionId + 1, regionCount + 1,
                                       minRegionSize)
                      ELSE ScanRegionsKeepingDiscardedIds(imageData,
                                       MarkRegion(pixelToRegion, regionPixels, currentRegionId),
                                       idx + 1, currentRegionId, regionCount, minRegionSize)

\* the second double loop of detectRegions, from linear index idx on
RECURSIVE ScanRegions(_, _, _, _, _, _)
ScanRegions(imageData, pixelToRegion, idx, currentRegionId, regionCount, minRegionSize) ==
    IF idx >= imageData.width * imageData.height
    THEN [width         |-> imageData.width,
          height        |-> imageData.height,
          regionCount   |-> regionCount,
          pixelToRegion |-> pixelToRegion]
    ELSE LET x == idx % imageData.width
             y == idx \div imageData.width
         IN  IF pixelToRegion[y][x] # 0
             THEN ScanRegions(imageData, pixelToRegion, idx + 1, currentRegionId,
                              regionCount, minRegionSize)
             ELSE LET regionPixels ==
                          floodFillRegion(imageData, pixelToRegion, x, y, currentRegionId)
                  IN  IF Cardinality(regionPixels) >= minRegionSize
                      THEN ScanRegions(imageData,
                                       MarkRegion(pixelToRegion, regionPixels, currentRegionId),
                                       idx + 1, currentRegionId + 1, regionCount + 1,
                                       minRegionSize)
                      ELSE ScanRegions(imageData,
                                       MarkRegion(pixelToRegion, regionPixels, BOUNDARY),
                                       idx + 1, currentRegionId, regionCount, minRegionSize)

detectRegions(imageData, boundaryThreshold, minRegionSize) ==
    ScanRegions(imageData,
                [y \in 0 .. imageData.height - 1 |->
                   [x \in 0 .. imageData.width - 1 |->
                      IF isBoundaryPixel(getPixelColor(imageData, x, y), boundaryThreshold)
                      THEN BOUNDARY ELSE 0]],
                0, 1, 0, minRegionSize)

-----------------------------------------------------------------------------
(* lib/regionDetection.ts: point lookup *)

getRegionAt(rm, xh, yh) ==
    LET x == MathRound(xh)
        y == MathRound(yh)
    IN  IF x < 0 \/ x >= rm.width \/ y < 0 \/ y >= rm.height
        THEN 0
        ELSE rm.pixelToRegion[y][x]

\* getRegionAtWithTolerance resolving a boundary pixel to whichever region is
\* found nearby, not only to the target
getRegionAtWithToleranceAnyRegion(rm, xh, yh, targetRegionId, tolerance) ==
    LET x == MathRound(xh)
        y == MathRound(yh)
        regionId == getRegionAt(rm, 2 * x, 2 * y)
        Found == { getRegionAt(rm, 2 * (x + d[1]), 2 * (y + d[2])) :
                     d \in { e \in (0 - tolerance .. tolerance) \X (0 - tolerance .. tolerance) :
                               ~(e[1] = 0 /\ e[2] = 0) } } \ {0, BOUNDARY}
    IN  IF regionId > 0 THEN regionId
        ELSE IF regionId = BOUNDARY /\ Found # {}
             THEN CHOOSE r \in Found : \A q \in Found : q <= r
             ELSE regionId

getRegionAtWithTolerance(rm, xh, yh, targetRegionId, tolerance) ==
    LET x == MathRound(xh)
        y == MathRound(yh)
        regionId == getRegionAt(rm, 2 * x, 2 * y)
        Nearby == { d \in (0 - tolerance .. tolerance) \X (0 - tolerance .. tolerance) :
                      /\ ~(d[1] = 0 /\ d[2] = 0)
                      /\ ~(x + d[1] < 0 \/ x + d[1] >= rm.width \/
                           y + d[2] < 0 \/ y + d[2] >= rm.height) }
    IN  IF regionId > 0 THEN regionId
        ELSE IF /\ regionId = BOUNDARY
                /\ \E d \in Nearby :
                     getRegionAt(rm, 2 * (x + d[1]), 2 * (y + d[2])) = targetRegionId
             THEN targetRegionId
             ELSE regionId

-----------------------------------------------------------------------------
(* lib/layerGeneration.ts: layers, masks *)

OpaqueWhite == [c |-> 255, a |-> OPAQUE_ALPHA]
Transparent == [c |-> 0, a |-> TRANSPARENT_ALPHA]

\* generateLayers testing pixelRegionId >= regionId instead of ===
MaskOfAtLeast(rm, regionId) ==
    [width  |-> rm.width,
     height |-> rm.height,
     data   |-> [idx \in 0 .. rm.width * rm.height - 1 |->
                   IF rm.pixelToRegion[idx \div rm.width][idx % rm.width] >= regionId
                   THEN OpaqueWhite
                   ELSE Transparent]]

\* new ImageData(width, height) filled by the double loop of generateLayers
MaskOf(rm, regionId) ==
    [width  |-> rm.width,
     height |-> rm.height,
     data   |-> [idx \in 0 .. rm.width * rm.height - 1 |->
                   IF rm.pixelToRegion[idx \div rm.width][idx % rm.width] = regionId
                   THEN OpaqueWhite
                   ELSE Transparent]]

generateLayers(rm) ==
    [regionId \in 1 .. rm.regionCount |-> [id |-> regionId, mask |-> MaskOf(rm, regionId)]]

\* generateLayers when canvas.getContext('2d') returns null for the regions
\* in noContext: the loop throws at the first of them and nothing is returned
generateLayersWithContexts(rm, noContext) ==
    IF \E regionId \in 1 .. rm.regionCount : regionId \in noContext
    THEN [threw |-> TRUE, layers |-> <<>>]
    ELSE [threw |-> FALSE, layers |-> generateLayers(rm)]

\* ctx.putImageData(mask, 0, 0) on the fresh canvas of every layer
InitialSurfaces(ls) == [i \in 1 .. Len(ls) |-> ls[i].mask.data]

\* createLayerLookupTable storing the position of the layer counted from 1
createLayerLookupTableOneBased(ls, width, height) ==
    [width  |-> width,
     height |-> height,
     data   |-> [linearIdx \in 0 .. width * height - 1 |->
                   LET Hits == { i \in 1 .. Len(ls) :
                                   /\ linearIdx \in DOMAIN ls[i].mask.data
                                   /\ ls[i].mask.data[linearIdx].a = OPAQUE_ALPHA }
                   IN  IF Hits = {} THEN NO_LAYER_SENTINEL
                       ELSE CHOOSE i \in Hits : \A j \in Hits : j <= i]]

createLayerLookupTable(ls, width, height) ==
    [width  |-> width,
     height |-> height,
     data   |-> [linearIdx \in 0 .. width * height - 1 |->
                   LET Hits == { i \in 1 .. Len(ls) :
                                   /\ linearIdx \in DOMAIN ls[i].mask.data
                                   /\ ls[i].mask.data[linearIdx].a = OPAQUE_ALPHA }
                   IN  IF Hits = {} THEN NO_LAYER_SENTINEL
                       \* layers.forEach: a later layer overwrites an earlier one;
                       \* the table stores the 0-based layerIndex
                       ELSE (CHOOSE i \in Hits : \A j \in Hits : j <= i) - 1]]

\* the optional lookupTable argument left out (undefined)
NoLookupTable == [width |-> 0, height |-> 0, data |-> <<>>]

\* the result is an index into ls, 0 for null.  Without a table every layer's
\* mask is probed in turn at the linear index of (x, y), which is not
\* bounds-checked: reading past the array gives undefined, never 255
findLayerAtPoint(ls, xh, yh, table) ==
    LET x == MathRound(xh)
        y == MathRound(yh)
    IN  IF table # NoLookupTable
        THEN IF x < 0 \/ x >= table.width \/ y < 0 \/ y >= table.height
             THEN 0
             ELSE LET layerIndex == table.data[y * table.width + x]
                  IN  IF layerIndex = NO_LAYER_SENTINEL THEN 0
                      ELSE IF layerIndex + 1 \in 1 .. Len(ls) THEN layerIndex + 1
                      ELSE 0
        ELSE LET Hits == { i \in 1 .. Len(ls) :
                             LET idx == y * ls[i].mask.width + x
                             IN  /\ idx \in DOMAIN ls[i].mask.data
                                 /\ ls[i].mask.data[idx].a = OPAQUE_ALPHA }
             IN  IF Hits = {} THEN 0
                 ELSE CHOOSE i \in Hits : \A j \in Hits : i <= j

-----------------------------------------------------------------------------
(* The 2D canvas: compositing of one stroke operation onto a bitmap *)

\* squared distance of pixel p from the segment a-b as a fraction <<num, den>>
Dist2(a, b, p) ==
    LET dx   == b.x - a.x
        dy   == b.y - a.y
        wx   == p.x - a.x
        wy   == p.y - a.y
        len2 == dx * dx + dy * dy
        dot  == wx * dx + wy * dy
    IN  IF len2 = 0 \/ dot <= 0 THEN <<wx * wx + wy * wy, 1>>
        ELSE IF dot >= len2
             THEN <<(p.x - b.x) * (p.x - b.x) + (p.y - b.y) * (p.y - b.y), 1>>
             ELSE <<(wx * wx + wy * wy) * len2 - dot * dot, len2>>

\* Alpha the stroke op lays on pixel p: full inside the round brush of
\* diameter op.size, SoftAlpha in the shadowBlur halo of a soft brush
\* (blur radius size * 0.5 beyond the edge), nothing elsewhere.
SoftAlpha == 128
Coverage(op, p) ==
    LET d == Dist2(op.from, op.to, p)
    IN  IF 4 * d[1] <= op.size * op.size * d[2] THEN 255
        ELSE IF op.soft /\ d[1] <= op.size * op.size * d[2] THEN SoftAlpha
        ELSE 0

\* globalCompositeOperation = "source-over" (the default), one pixel
SourceOver(dst, c, alpha) ==
    LET ao == alpha + (dst.a * (255 - alpha)) \div 255
    IN  IF ao = 0 THEN dst
        ELSE [c |-> (c * alpha + (dst.c * dst.a * (255 - alpha)) \div 255) \div ao,
              a |-> ao]

\* globalCompositeOperation = "source-atop", one pixel: the destination
\* keeps its alpha; the source shows only where the destination is not
\* transparent
SourceAtop(dst, c, alpha) ==
    IF dst.a = 0 THEN dst
    ELSE [c |-> (c * alpha + dst.c * (255 - alpha)) \div 255, a |-> dst.a]

\* stroke()/fill() of op on a bitmap of the given width under a composite op
Paint(bitmap, width, composite, op) ==
    [idx \in DOMAIN bitmap |->
       LET alpha == Coverage(op, [x |-> idx % width, y |-> idx \div width])
       IN  IF composite = "source-atop"
           THEN SourceAtop(bitmap[idx], op.color, alpha)
           ELSE SourceOver(bitmap[idx], op.color, alpha)]

\* drawStrokeWithClipping leaving the default composite operation in place
drawStrokeUnclipped(bitmap, width, mask, op) ==
    Paint(bitmap, width, "source-over", op)

\* save(); globalCompositeOperation = "source-atop"; strokeCallback(ctx); restore().
\* The mask parameter is not read.
drawStrokeWithClipping(bitmap, width, mask, op) ==
    Paint(bitmap, width, "source-atop", op)

-----------------------------------------------------------------------------
(* components/Canvas.tsx: the drawing session *)

\* the outline of the session: a black line down column 1, white elsewhere
SessionImage ==
    [width  |-> CanvasW,
     height |-> CanvasH,
     data   |-> [idx \in 0 .. CanvasW * CanvasH - 1 |->
                   IF idx % CanvasW = 1 THEN Black ELSE WhiteRGB]]

\* its region map: region 1 | boundary | region 2
SessionMap == detectRegions(SessionImage, BOUNDARY_THRESHOLD, 1)

Pt(x, y) == [x |-> x, y |-> y]
\* getCanvasCoordinates of an event over the container
CanvasPoints == { Pt(x, y) : x \in 0 .. CanvasW - 1, y \in 0 .. CanvasH - 1 }
\* getCanvasCoordinates of a pointerleave event: just off the container
ExitPoints == { Pt(x, y) : x \in 0 - 1 .. CanvasW, y \in 0 - 1 .. CanvasH } \ CanvasPoints

\* getCanvasCoordinates of a pointermove on the right or the bottom edge line
\* of the container's rectangle: off the element, inside the rectangle test
\* of handleGlobalPointerMove (clientX <= rect.right, clientY <= rect.bottom)
EdgePoints == { p \in ExitPoints : p.x >= 0 /\ p.y >= 0 }

White == 255
\* the brush props a render may see
Brushes ==
    { [isEraser |-> FALSE, brushType |-> "solid", brushSize |-> BrushSmall],
      [isEraser |-> FALSE, brushType |-> "soft",  brushSize |-> BrushLarge],
      [isEraser |-> TRUE,  brushType |-> "soft",  brushSize |-> BrushLarge] }

\* applyBrushSettings + moveTo/lineTo/stroke, and the arc/fill of the first dot
BrushOp(from, to, brush) ==
    [from  |-> from,
     to    |-> to,
     size  |-> brush.brushSize,
     color |-> IF brush.isEraser THEN White ELSE fillColor,
     soft  |-> brush.brushType = "soft" /\ ~brush.isEraser]

canvasWidth == regionMap.width

captureState(surf) ==
    [id \in { layers[i].id : i \in 1 .. Len(layers) } |->
       surf[CHOOSE i \in 1 .. Len(layers) : layers[i].id = id]]

\* clearRect + putImageData of the stored bitmap, for every layer the state has
restoreState(surf, state) ==
    [i \in 1 .. Len(layers) |->
       IF layers[i].id \in DOMAIN state THEN state[layers[i].id] ELSE surf[i]]

\* the clipped stroke issued to every layer instead of the locked one
DrawLockedOnEveryLayer(surf, layer, op) ==
    [i \in DOMAIN surf |->
       drawStrokeWithClipping(surf[i], canvasWidth, layers[i].mask, op)]

\* the stroke on one layer only, clipped
DrawLocked(surf, layer, op) ==
    [surf EXCEPT ![layer] =
       drawStrokeWithClipping(surf[layer], canvasWidth, layers[layer].mask, op)]

\* layers.forEach: the stroke on every layer's own context, no clipping
DrawFree(surf, op) ==
    [i \in DOMAIN surf |-> Paint(surf[i], canvasWidth, "source-over", op)]

\* what a move, leave or enter handler draws for the segment from-to
DrawSegment(surf, from, to, brush) ==
    IF stayWithinLines /\ activeLayerRef # 0
    THEN DrawLocked(surf, activeLayerRef, BrushOp(from, to, brush))
    ELSE IF ~stayWithinLines THEN DrawFree(surf, BrushOp(from, to, brush))
    ELSE surf

\* the callback handlePointerDown hands to requestAnimationFrame; cb holds
\* the values the closure captured
RunDotCallback(surf, cb) ==
    IF cb.stayWithinLines /\ cb.currentLayer # 0
    THEN DrawLocked(surf, cb.currentLayer, BrushOp(cb.coords, cb.coords, cb.brush))
    ELSE IF ~cb.stayWithinLines
    THEN DrawFree(surf, BrushOp(cb.coords, cb.coords, cb.brush))
    ELSE surf

RECURSIVE RunCallbacks(_, _)
RunCallbacks(surf, queue) ==
    IF queue = <<>> THEN surf
    ELSE RunCallbacks(RunDotCallback(surf, Head(queue)), Tail(queue))

SIGNIFICANT_MOVEMENT_THRESHOLD == 2
DEBOUNCE_MS == 50
significantMovement(a, b) ==
    (b.x - a.x) * (b.x - a.x) + (b.y - a.y) * (b.y - a.y)
        > SIGNIFICANT_MOVEMENT_THRESHOLD * SIGNIFICANT_MOVEMENT_THRESHOLD

-----------------------------------------------------------------------------
(* Event handlers.  Each states the whole effect of the handler on the      *)
(* component (surface, refs, state, history stacks, frame callbacks).       *)

\* handlePointerDown without the early return for a point that has no layer
handlePointerDownAnywhere(coords, brush, elapsed) ==
    IF elapsed < DEBOUNCE_MS
    THEN UNCHANGED progVars
    ELSE
    LET layer == findLayerAtPoint(layers, 2 * coords.x, 2 * coords.y, lookupTable)
    IN  /\ lastEventTimeRef' = 1
        /\ IF Len(layers) = 0
           THEN UNCHANGED <<surface, histVars, rafQueue, isDrawing, activeLayerRef,
                            lastPointRef, hasMovedRef, hasStateCapturedRef,
                            lastGlobalPositionRef>>
           ELSE /\ activeLayerRef' = IF stayWithinLines THEN layer ELSE 0
                /\ IF ~hasStateCapturedRef
                   THEN /\ undoStackRef' = Append(undoStackRef, captureState(surface))
                        /\ redoStackRef' = <<>>
                   ELSE UNCHANGED histVars
                /\ hasStateCapturedRef' = TRUE
                /\ isDrawing' = TRUE
                /\ lastPointRef' = <<coords>>
                /\ hasMovedRef' = FALSE
                /\ rafQueue' = Append(rafQueue,
                       [stayWithinLines |-> stayWithinLines,
                        currentLayer    |-> IF stayWithinLines THEN layer ELSE 0,
                        brush           |-> brush,
                        coords          |-> coords])
                /\ UNCHANGED <<surface, lastGlobalPositionRef>>

\* elapsed is now - lastEventTimeRef.current, in ms
handlePointerDown(coords, brush, elapsed) ==
    IF elapsed < DEBOUNCE_MS
    THEN UNCHANGED progVars
    ELSE
    LET layer == findLayerAtPoint(layers, 2 * coords.x, 2 * coords.y, lookupTable)
    IN  /\ lastEventTimeRef' = 1
        /\ IF Len(layers) = 0 \/ (stayWithinLines /\ layer = 0)
           THEN UNCHANGED <<surface, histVars, rafQueue, isDrawing, activeLayerRef,
                            lastPointRef, hasMovedRef, hasStateCapturedRef,
                            lastGlobalPositionRef>>
           ELSE /\ activeLayerRef' = IF stayWithinLines THEN layer ELSE 0
                /\ IF ~hasStateCapturedRef
                   THEN /\ undoStackRef' = Append(undoStackRef, captureState(surface))
                        /\ redoStackRef' = <<>>
                   ELSE UNCHANGED histVars
                /\ hasStateCapturedRef' = TRUE
                /\ isDrawing' = TRUE
                /\ lastPointRef' = <<coords>>
                /\ hasMovedRef' = FALSE
                /\ rafQueue' = Append(rafQueue,
                       [stayWithinLines |-> stayWithinLines,
                        currentLayer    |-> IF stayWithinLines THEN layer ELSE 0,
                        brush           |-> brush,
                        coords          |-> coords])
                /\ UNCHANGED <<surface, lastGlobalPositionRef>>

\* all but lastGlobalPositionRef, which the window listener writes in the
\* same event (handleGlobalPointerMove)
handlePointerMove(coords, brush) ==
    /\ UNCHANGED <<isDrawing, activeLayerRef, hasStateCapturedRef, lastEventTimeRef,
                   histVars, rafQueue>>
    /\ IF ~isDrawing \/ Len(layers) = 0
       THEN UNCHANGED <<surface, lastPointRef, hasMovedRef>>
       ELSE IF lastPointRef = <<>>
       THEN /\ lastPointRef' = <<coords>>
            /\ UNCHANGED <<surface, hasMovedRef>>
       ELSE /\ surface' = DrawSegment(surface, lastPointRef[1], coords, brush)
            /\ hasMovedRef' =
                 IF /\ (stayWithinLines /\ activeLayerRef # 0) \/ ~stayWithinLines
                    /\ significantMovement(lastPointRef[1], coords)
                 THEN TRUE ELSE hasMovedRef
            /\ lastPointRef' = <<coords>>

\* the window-level pointermove listener, for an event over the container
handleGlobalPointerMove(coords) ==
    IF Len(layers) # 0 /\ buttons = 1
    THEN lastGlobalPositionRef' = <<coords>>
    ELSE UNCHANGED lastGlobalPositionRef

handlePointerUp ==
    /\ isDrawing' = FALSE
    /\ activeLayerRef' = 0
    /\ hasStateCapturedRef' = FALSE
    /\ lastPointRef' = <<>>
    /\ lastGlobalPositionRef' = <<>>
    /\ hasMovedRef' = FALSE
    /\ UNCHANGED <<surface, lastEventTimeRef, histVars, rafQueue>>

handlePointerUpPreserveLayer ==
    /\ isDrawing' = FALSE
    /\ lastPointRef' = <<>>
    /\ lastGlobalPositionRef' = <<>>
    /\ hasMovedRef' = FALSE
    /\ UNCHANGED <<activeLayerRef, hasStateCapturedRef, lastEventTimeRef, histVars,
                   rafQueue>>

handlePointerLeave(exitCoords, brush) ==
    IF ~isDrawing \/ Len(layers) = 0
    THEN handlePointerUp
    ELSE /\ surface' =
              IF lastPointRef # <<>> /\ lastPointRef[1] # exitCoords
              THEN DrawSegment(surface, lastPointRef[1], exitCoords, brush)
              ELSE surface
         /\ handlePointerUpPreserveLayer

\* handlePointerEnter looking the layer up again at the point of re-entry
handlePointerEnterResolving(coords, brush) ==
    /\ UNCHANGED <<hasMovedRef, hasStateCapturedRef, lastGlobalPositionRef,
                   lastEventTimeRef, histVars, rafQueue, surface>>
    /\ IF Len(layers) = 0 \/ buttons # 1
       THEN UNCHANGED <<activeLayerRef, isDrawing, lastPointRef>>
       ELSE /\ activeLayerRef' =
                 IF stayWithinLines
                 THEN findLayerAtPoint(layers, 2 * coords.x, 2 * coords.y, lookupTable)
                 ELSE activeLayerRef
            /\ IF activeLayerRef' # 0 \/ ~stayWithinLines
               THEN isDrawing' = TRUE /\ lastPointRef' = <<coords>>
               ELSE UNCHANGED <<isDrawing, lastPointRef>>

handlePointerEnter(coords, brush) ==
    /\ UNCHANGED <<activeLayerRef, hasMovedRef, hasStateCapturedRef,
                   lastGlobalPositionRef, lastEventTimeRef, histVars, rafQueue>>
    /\ IF Len(layers) = 0 \/ buttons # 1
       THEN UNCHANGED <<surface, isDrawing, lastPointRef>>
       ELSE /\ surface' =
                 IF lastGlobalPositionRef # <<>> /\ lastGlobalPositionRef[1] # coords
                 THEN DrawSegment(surface, lastGlobalPositionRef[1], coords, brush)
                 ELSE surface
            /\ IF activeLayerRef # 0 \/ ~stayWithinLines
               THEN isDrawing' = TRUE /\ lastPointRef' = <<coords>>
               ELSE UNCHANGED <<isDrawing, lastPointRef>>

-----------------------------------------------------------------------------
(* The imperative handle: undo, redo, clear.  Each maps the history         *)
(* h = [surface, undo, redo] to the history it leaves.                      *)

History == [surface |-> surface, undo |-> undoStackRef, redo |-> redoStackRef]

\* undo saving the current state for redo before it looks at the undo stack
undoPushesFirst(h) ==
    [surface |-> IF Len(h.undo) = 0 THEN h.surface
                 ELSE restoreState(h.surface, h.undo[Len(h.undo)]),
     undo    |-> IF Len(h.undo) = 0 THEN h.undo
                 ELSE SubSeq(h.undo, 1, Len(h.undo) - 1),
     redo    |-> Append(h.redo, captureState(h.surface))]

\* clear without putting the mask back after clearRect
clearWithoutMask(h) ==
    [surface |-> [i \in 1 .. Len(layers) |->
                    [idx \in DOMAIN layers[i].mask.data |-> Transparent]],
     undo    |-> Append(h.undo, captureState(h.surface)),
     redo    |-> <<>>]

\* undo forgetting to keep the current state for redo
undoWithoutRedoPush(h) ==
    IF Len(h.undo) = 0 THEN h
    ELSE [surface |-> restoreState(h.surface, h.undo[Len(h.undo)]),
          undo    |-> SubSeq(h.undo, 1, Len(h.undo) - 1),
          redo    |-> h.redo]

\* undo with snapshots that share their buffers with the canvases: what
\* restoreState puts on the layers shows in every snapshot still stored
undoThroughAliasedBuffers(h) ==
    IF Len(h.undo) = 0 THEN h
    ELSE LET restored == restoreState(h.surface, h.undo[Len(h.undo)])
         IN  [surface |-> restored,
              undo    |-> [k \in 1 .. Len(h.undo) - 1 |-> captureState(restored)],
              redo    |-> Append(h.redo, captureState(h.surface))]

undo(h) ==
    IF Len(h.undo) = 0 THEN h
    ELSE [surface |-> restoreState(h.surface, h.undo[Len(h.undo)]),
          undo    |-> SubSeq(h.undo, 1, Len(h.undo) - 1),
          redo    |-> Append(h.redo, captureState(h.surface))]

redo(h) ==
    IF Len(h.redo) = 0 THEN h
    ELSE [surface |-> restoreState(h.surface, h.redo[Len(h.redo)]),
          undo    |-> Append(h.undo, captureState(h.surface)),
          redo    |-> SubSeq(h.redo, 1, Len(h.redo) - 1)]

clear(h) ==
    [surface |-> [i \in 1 .. Len(layers) |-> layers[i].mask.data],
     undo    |-> Append(h.undo, captureState(h.surface)),
     redo    |-> <<>>]

canUndo(h) == Len(h.undo) > 0
canRedo(h) == Len(h.redo) > 0

SetHistory(h) ==
    /\ surface' = h.surface
    /\ undoStackRef' = h.undo
    /\ redoStackRef' = h.redo

-----------------------------------------------------------------------------
(* The session: events as the browser delivers them *)

NoCall == [fn |-> "none"]
NoPending == [stage |-> "none"]
\* no detectRegions call is being stepped through
NoDetect == [pc |-> "none"]
NoFill == [stack |-> <<>>, visited |-> {}, pixels |-> <<>>, regionId |-> 0]

NoPath == [steps |-> 0]

SessionInit ==
    /\ regionMap = SessionMap
    /\ layers = generateLayers(SessionMap)
    /\ surface = InitialSurfaces(generateLayers(SessionMap))
    /\ lookupTable = createLayerLookupTable(generateLayers(SessionMap), CanvasW, CanvasH)
    /\ isDrawing = FALSE
    /\ activeLayerRef = 0
    /\ lastPointRef = <<>>
    /\ hasMovedRef = FALSE
    /\ hasStateCapturedRef = FALSE
    /\ lastGlobalPositionRef = <<>>
    /\ lastEventTimeRef = 0
    /\ undoStackRef = <<>>
    /\ redoStackRef = <<>>
    /\ rafQueue = <<>>
    /\ stayWithinLines = TRUE
    /\ overCanvas \in BOOLEAN
    /\ buttons = 0
    /\ gesture = "none"
    /\ nEvents = 0
    /\ lastEvent = "mount"
    /\ phase = "idle"
    /\ preGesture = <<>>
    /\ snapshotTaken = FALSE
    /\ call = NoCall
    /\ selectedImage = 1
    /\ processedData = <<[regionMap |-> SessionMap]>>
    /\ pending = NoPending
    /\ lockedRegionId = 0
    /\ segmentedPath = NoPath
    /\ detect = NoDetect
    /\ fill = NoFill

Deliver(event) ==
    /\ nEvents < MaxEvents
    /\ nEvents' = nEvents + 1
    /\ lastEvent' = event

\* Date.now() - lastEventTimeRef.current at a pointerdown: any time may have
\* passed since the last pointerdown let through; since the epoch if none was
Elapsed == IF lastEventTimeRef = 0 THEN {DEBOUNCE_MS} ELSE {DEBOUNCE_MS - 1, DEBOUNCE_MS}

\* the canvas point lies on a boundary line or a discarded area of the image
NoRegionAt(coords) == getRegionAt(regionMap, 2 * coords.x, 2 * coords.y) <= 0

\* pointerdown on the container: the primary button goes down over it
PointerDown ==
    /\ Deliver("pointerdown")
    /\ overCanvas /\ buttons = 0
    /\ \E coords \in CanvasPoints, brush \in Brushes, elapsed \in Elapsed :
         /\ handlePointerDown(coords, brush, elapsed)
         /\ gesture' = IF stayWithinLines /\ NoRegionAt(coords) THEN "noregion"
                       ELSE IF rafQueue' = rafQueue THEN "ignored"
                       ELSE IF stayWithinLines THEN "locked" ELSE "free"
    /\ buttons' = 1
    /\ phase' = IF rafQueue' = rafQueue THEN "idle" ELSE "open"
    /\ preGesture' = IF rafQueue' = rafQueue THEN <<>> ELSE surface
    /\ snapshotTaken' = (undoStackRef' # undoStackRef)
    /\ UNCHANGED <<loadVars, stayWithinLines, overCanvas, call, appVars, tolVars, segVars>>

\* touchstart on the container: the touch channel reports the contact that an
\* accepted pointerdown has just reported, at the same point and under the
\* same render; handleTouchStart hands it to handlePointerDown.  How long
\* after the pointerdown its Date.now() is read is up to the browser and to
\* how long the pointerdown handler took.
TouchStart ==
    /\ overCanvas /\ buttons = 1
    /\ lastEvent = "pointerdown" /\ gesture \in {"locked", "free"}
    /\ lastPointRef # <<>> /\ rafQueue # <<>>
    /\ \E elapsed \in Elapsed :
         /\ Deliver(IF elapsed < DEBOUNCE_MS THEN "touchstart in debounce window"
                                             ELSE "touchstart")
         /\ handlePointerDown(lastPointRef[1], rafQueue[Len(rafQueue)].brush, elapsed)
    /\ UNCHANGED <<loadVars, stayWithinLines, envVars, ghostVars, call, appVars, tolVars, segVars>>

\* pointermove over the container, with or without the button
PointerMove ==
    /\ Deliver("pointermove")
    /\ overCanvas
    /\ \E coords \in CanvasPoints, brush \in Brushes :
         /\ handlePointerMove(coords, brush)
         /\ handleGlobalPointerMove(coords)
    /\ UNCHANGED <<loadVars, stayWithinLines, envVars, ghostVars, call, appVars, tolVars, segVars>>

\* pointermove with the button held while the pointer is off the container,
\* on the edge line of its rectangle: only the window listener runs
PointerMoveOnEdge ==
    /\ Deliver("pointermove on edge")
    /\ ~overCanvas /\ buttons = 1
    /\ \E coords \in EdgePoints : handleGlobalPointerMove(coords)
    /\ UNCHANGED <<surface, isDrawing, activeLayerRef, lastPointRef, hasMovedRef,
                   hasStateCapturedRef, lastEventTimeRef, histVars, rafQueue>>
    /\ UNCHANGED <<loadVars, stayWithinLines, envVars, ghostVars, call, appVars, tolVars, segVars>>

\* pointerup (or pointercancel) on the container
PointerUp ==
    /\ Deliver("pointerup")
    /\ overCanvas /\ buttons = 1
    /\ handlePointerUp
    /\ buttons' = 0
    /\ gesture' = "none"
    /\ phase' = IF phase = "open" THEN "done" ELSE "idle"
    /\ preGesture' = IF phase = "open" THEN preGesture ELSE <<>>
    /\ snapshotTaken' = FALSE
    /\ UNCHANGED <<loadVars, stayWithinLines, overCanvas, call, appVars, tolVars, segVars>>

\* the pointer leaves the container, button held or not
PointerLeave ==
    /\ Deliver("pointerleave")
    /\ overCanvas
    /\ \E exitCoords \in ExitPoints, brush \in Brushes : handlePointerLeave(exitCoords, brush)
    /\ overCanvas' = FALSE
    /\ phase' = "idle"
    /\ preGesture' = <<>>
    /\ UNCHANGED <<loadVars, stayWithinLines, buttons, gesture, snapshotTaken, call, appVars, tolVars, segVars>>

\* the pointer comes over the container, button held or not
PointerEnter ==
    /\ Deliver("pointerenter")
    /\ ~overCanvas
    /\ \E coords \in CanvasPoints, brush \in Brushes : handlePointerEnter(coords, brush)
    /\ overCanvas' = TRUE
    /\ phase' = "idle"
    /\ preGesture' = <<>>
    /\ UNCHANGED <<loadVars, stayWithinLines, buttons, gesture, snapshotTaken, call, appVars, tolVars, segVars>>

\* the button is pressed or released away from the container: no handler runs
PressOutside ==
    /\ Deliver("press outside")
    /\ ~overCanvas /\ buttons = 0
    /\ buttons' = 1
    /\ gesture' = "outside"
    /\ phase' = "idle"
    /\ preGesture' = <<>>
    /\ snapshotTaken' = FALSE
    /\ UNCHANGED <<loadVars, progVars, stayWithinLines, overCanvas, call, appVars, tolVars, segVars>>

ReleaseOutside ==
    /\ Deliver("release outside")
    /\ ~overCanvas /\ buttons = 1
    /\ buttons' = 0
    /\ gesture' = "none"
    /\ phase' = "idle"
    /\ preGesture' = <<>>
    /\ snapshotTaken' = FALSE
    /\ UNCHANGED <<loadVars, progVars, stayWithinLines, overCanvas, call, appVars, tolVars, segVars>>

\* the next display frame: every waiting callback runs, in order
AnimationFrame ==
    /\ Deliver("frame")
    /\ rafQueue # <<>>
    /\ surface' = RunCallbacks(surface, rafQueue)
    /\ rafQueue' = <<>>
    /\ UNCHANGED <<loadVars, stateVars, histVars, stayWithinLines, envVars, ghostVars, call, appVars, tolVars, segVars>>

\* the handle is called, whatever the stacks hold: DrawingScreen enables its
\* buttons from the canUndo()/canRedo() it read at the last history change,
\* and a pointerdown empties the redo stack without announcing one
Undo ==
    /\ Deliver("undo")
    /\ SetHistory(undo(History))
    /\ phase' = "idle"
    /\ preGesture' = <<>>
    /\ UNCHANGED <<loadVars, stateVars, rafQueue, stayWithinLines, envVars,
                   snapshotTaken, call, appVars, tolVars, segVars>>

Redo ==
    /\ Deliver("redo")
    /\ SetHistory(redo(History))
    /\ phase' = "idle"
    /\ preGesture' = <<>>
    /\ UNCHANGED <<loadVars, stateVars, rafQueue, stayWithinLines, envVars,
                   snapshotTaken, call, appVars, tolVars, segVars>>

Clear ==
    /\ Deliver("clear")
    /\ SetHistory(clear(History))
    /\ phase' = "idle"
    /\ preGesture' = <<>>
    /\ UNCHANGED <<loadVars, stateVars, rafQueue, stayWithinLines, envVars,
                   snapshotTaken, call, appVars, tolVars, segVars>>

\* DrawingScreen toggles the stay-within-lines prop
SetStayWithinLines ==
    /\ Deliver("stayWithinLines")
    /\ stayWithinLines' = ~stayWithinLines
    /\ UNCHANGED <<libVars, stateVars, histVars, rafQueue, envVars, ghostVars, call, appVars, tolVars, segVars>>

Next ==
    \/ PointerDown
    \/ TouchStart
    \/ PointerMove
    \/ PointerMoveOnEdge
    \/ PointerUp
    \/ PointerLeave
    \/ PointerEnter
    \/ PressOutside
    \/ ReleaseOutside
    \/ AnimationFrame
    \/ Undo
    \/ Redo
    \/ Clear
    \/ SetStayWithinLines

Spec == SessionInit /\ [][Next]_vars

\* the same session with the stay-within-lines prop left on throughout
NextLocked ==
    \/ PointerDown
    \/ TouchStart
    \/ PointerMove
    \/ PointerMoveOnEdge
    \/ PointerUp
    \/ PointerLeave
    \/ PointerEnter
    \/ PressOutside
    \/ ReleaseOutside
    \/ AnimationFrame
    \/ Undo
    \/ Redo
    \/ Clear

SpecLocked == SessionInit /\ [][NextLocked]_vars

-----------------------------------------------------------------------------
(* The library on its own: every outline image of MapW x MapH pixels is     *)
(* processed, its layers are built, and the lookup functions are called.    *)

OutlineImages ==
    { [width |-> MapW, height |-> MapH, data |-> d] :
        d \in [0 .. MapW * MapH - 1 -> {Black, WhiteRGB}] }

\* an all-white square image with a closed black square outline, one pixel
\* thick, one pixel in from the edge: white outside it, white inside it
SquareOutlineImage ==
    [width  |-> SceneSize,
     height |-> SceneSize,
     data   |-> [idx \in 0 .. SceneSize * SceneSize - 1 |->
                   LET x == idx % SceneSize
                       y == idx \div SceneSize
                   IN  IF /\ x \in 1 .. SceneSize - 2
                          /\ y \in 1 .. SceneSize - 2
                          /\ (x \in {1, SceneSize - 2} \/ y \in {1, SceneSize - 2})
                       THEN Black ELSE WhiteRGB]]

\* a 3 x 3 image whose white areas are, in scan order, a column of two
\* pixels, a single pixel, and a row of two pixels:   W B W / W B B / B W W
NoiseBetweenImage ==
    [width  |-> 3,
     height |-> 3,
     data   |-> [idx \in 0 .. 8 |-> IF idx \in {1, 4, 5, 6} THEN Black ELSE WhiteRGB]]

\* the images processImage is tried on
InputImages == OutlineImages \cup {SquareOutlineImage, NoiseBetweenImage}

\* the region map before an image is processed
NoRegionMap == [width |-> 0, height |-> 0, regionCount |-> 0, pixelToRegion |-> <<>>]

LibInit ==
    /\ regionMap = NoRegionMap
    /\ layers = <<>>
    /\ surface = <<>>
    /\ lookupTable = NoLookupTable
    /\ isDrawing = FALSE
    /\ activeLayerRef = 0
    /\ lastPointRef = <<>>
    /\ hasMovedRef = FALSE
    /\ hasStateCapturedRef = FALSE
    /\ lastGlobalPositionRef = <<>>
    /\ lastEventTimeRef = 0
    /\ undoStackRef = <<>>
    /\ redoStackRef = <<>>
    /\ rafQueue = <<>>
    /\ stayWithinLines = TRUE
    /\ overCanvas = FALSE
    /\ buttons = 0
    /\ gesture = "none"
    /\ nEvents = 0
    /\ lastEvent = "mount"
    /\ phase = "idle"
    /\ preGesture = <<>>
    /\ snapshotTaken = FALSE
    /\ call = NoCall
    /\ selectedImage = 0
    /\ processedData = <<>>
    /\ pending = NoPending
    /\ lockedRegionId = 0
    /\ segmentedPath = NoPath
    /\ detect = NoDetect
    /\ fill = NoFill

\* processImage: detectRegions on the pixels of the loaded image
CallDetectRegions ==
    /\ call.fn = "none"
    /\ \E imageData \in InputImages, minRegionSize \in 1 .. MaxMinRegionSize :
         /\ regionMap' = detectRegions(imageData, BOUNDARY_THRESHOLD, minRegionSize)
         /\ call' = [fn            |-> "detectRegions",
                     imageData     |-> imageData,
                     minRegionSize |-> minRegionSize]
    /\ UNCHANGED <<layers, surface, lookupTable, stateVars, histVars, rafQueue,
                   stayWithinLines, envVars, stepVars, ghostVars, appVars, tolVars, segVars>>

\* generateLayers(regionMap), then createLayerLookupTable with the width and
\* the height of the masks.
\* getContext may fail for no region or for any one of them; when
\* generateLayers throws, the useMemo of DrawingScreen yields nothing
CallGenerateLayers ==
    /\ call.fn = "detectRegions"
    /\ \E noContext \in {{}} \cup { {k} : k \in 1 .. regionMap.regionCount } :
         LET built == generateLayersWithContexts(regionMap, noContext)
         IN  /\ call' = [fn |-> "generateLayers", threw |-> built.threw,
                         noContext |-> noContext]
             /\ IF built.threw
                THEN UNCHANGED <<layers, surface, lookupTable>>
                ELSE /\ layers' = built.layers
                     /\ surface' = InitialSurfaces(built.layers)
                     /\ lookupTable' = createLayerLookupTable(built.layers,
                                           regionMap.width, regionMap.height)
    /\ UNCHANGED <<regionMap, stateVars, histVars, rafQueue, stayWithinLines, envVars,
                   stepVars, ghostVars, appVars, tolVars, segVars>>

\* DrawingScreen's CANVAS_SIZE ("all images are 1000x1000"), scaled down to
\* the images of this model: the 3x3 image has the canvas' size, the 3x2 and
\* the 5x5 images have not
CANVAS_SIZE == 3

\* DrawingScreen's lookupTable memo: the table handed to the Canvas is built
\* over CANVAS_SIZE x CANVAS_SIZE, whatever the size of the region map (the
\* loaded image's natural size) the layers and their masks were built with
CallCreateLayerLookupTable ==
    /\ call.fn = "generateLayers" /\ ~call.threw
    /\ lookupTable' = createLayerLookupTable(layers, CANVAS_SIZE, CANVAS_SIZE)
    /\ call' = [fn |-> "createLayerLookupTable", width |-> CANVAS_SIZE,
                height |-> CANVAS_SIZE]
    /\ UNCHANGED <<regionMap, layers, surface, stateVars, histVars, rafQueue,
                   stayWithinLines, envVars, stepVars, ghostVars, appVars, tolVars, segVars>>

\* one direct lookup, coordinates in half pixels from one pixel off the map
CallGetRegionAt ==
    /\ call.fn \in {"detectRegions", "generateLayers"}
    /\ \E xh \in 0 - 2 .. 2 * regionMap.width, yh \in 0 - 2 .. 2 * regionMap.height :
         call' = [fn |-> "getRegionAt", x |-> xh, y |-> yh,
                  result |-> getRegionAt(regionMap, xh, yh)]
    /\ UNCHANGED <<libVars, stateVars, histVars, rafQueue, stayWithinLines, envVars,
                   stepVars, ghostVars, appVars, tolVars, segVars>>

\* one layer lookup on the layers built, with the lookup table or without
CallFindLayerAtPoint ==
    /\ call.fn = "generateLayers" /\ ~call.threw
    /\ \E xh \in 0 - 2 .. 2 * regionMap.width, yh \in 0 - 2 .. 2 * regionMap.height,
          withTable \in BOOLEAN :
         call' = [fn |-> "findLayerAtPoint", x |-> xh, y |-> yh, withTable |-> withTable,
                  result |-> findLayerAtPoint(layers, xh, yh,
                                 IF withTable THEN lookupTable ELSE NoLookupTable)]
    /\ UNCHANGED <<libVars, stateVars, histVars, rafQueue, stayWithinLines, envVars,
                   stepVars, ghostVars, appVars, tolVars, segVars>>

\* one lookup with tolerance: coordinates in half pixels from one pixel off
\* the map on either side; the target is the id of a region, as the caller's
\* locked layer gives it (id 1 on a map without regions)
CallGetRegionAtWithTolerance ==
    /\ call.fn \in {"detectRegions", "generateLayers"}
    /\ \E xh \in 0 - 2 .. 2 * regionMap.width, yh \in 0 - 2 .. 2 * regionMap.height,
          targetRegionId \in 1 .. Max(regionMap.regionCount, 1),
          tolerance \in 0 .. MaxTolerance :
         call' = [fn             |-> "getRegionAtWithTolerance",
                  x              |-> xh,
                  y              |-> yh,
                  targetRegionId |-> targetRegionId,
                  tolerance      |-> tolerance,
                  result         |-> getRegionAtWithTolerance(regionMap, xh, yh,
                                                              targetRegionId, tolerance)]
    /\ UNCHANGED <<libVars, stateVars, histVars, rafQueue, stayWithinLines, envVars,
                   stepVars, ghostVars, appVars, tolVars, segVars>>

\* lib/constants.ts, and the default of the parameter in detectRegions' signature
MIN_REGION_SIZE == 100
DEFAULT_MIN_REGION_SIZE == 10

\* detectRegions(imageData): both optional parameters left out
detectRegionsWithDefaults(imageData) ==
    detectRegions(imageData, BOUNDARY_THRESHOLD, DEFAULT_MIN_REGION_SIZE)

\* an all-white image of one row
StripImage(n) ==
    [width |-> n, height |-> 1, data |-> [idx \in 0 .. n - 1 |-> WhiteRGB]]

\* detectRegions called with the image alone, on one-row images around the default
CallDetectRegionsWithDefaults ==
    /\ call.fn = "none"
    /\ \E n \in DEFAULT_MIN_REGION_SIZE - 1 .. DEFAULT_MIN_REGION_SIZE + 1 :
         /\ regionMap' = detectRegionsWithDefaults(StripImage(n))
         /\ call' = [fn |-> "detectRegionsWithDefaults", imageData |-> StripImage(n)]
    /\ UNCHANGED <<layers, surface, lookupTable, stateVars, histVars, rafQueue,
                   stayWithinLines, envVars, stepVars, ghostVars, appVars, tolVars, segVars>>

\* channel values, alpha values and thresholds isBoundaryPixel is tried on
ChannelSamples == {0, BOUNDARY_THRESHOLD - 1, BOUNDARY_THRESHOLD, BOUNDARY_THRESHOLD + 1, 255}
AlphaSamples == {TRANSPARENT_ALPHA, BOUNDARY_THRESHOLD, OPAQUE_ALPHA}
ThresholdSamples == {BOUNDARY_THRESHOLD - 1, BOUNDARY_THRESHOLD, BOUNDARY_THRESHOLD + 1}

\* an ImageData of one RGBA pixel
OnePixelImage(r, g, b, a) ==
    [width |-> 1, height |-> 1, data |-> [idx \in {0} |-> [r |-> r, g |-> g, b |-> b, a |-> a]]]

\* the first loop of detectRegions on one pixel: getPixelColor, then isBoundaryPixel
CallIsBoundaryPixel ==
    /\ call.fn = "none"
    /\ \E r \in ChannelSamples, g \in ChannelSamples, b \in ChannelSamples,
          a \in AlphaSamples, threshold \in ThresholdSamples :
         call' = [fn |-> "isBoundaryPixel", r |-> r, g |-> g, b |-> b, a |-> a,
                  threshold |-> threshold,
                  result |-> isBoundaryPixel(getPixelColor(OnePixelImage(r, g, b, a), 0, 0),
                                             threshold)]
    /\ UNCHANGED <<libVars, stateVars, histVars, rafQueue, stayWithinLines, envVars,
                   stepVars, ghostVars, appVars, tolVars, segVars>>

NextLib ==
    \/ CallIsBoundaryPixel
    \/ CallDetectRegionsWithDefaults
    \/ CallDetectRegions
    \/ CallGenerateLayers
    \/ CallCreateLayerLookupTable
    \/ CallGetRegionAt
    \/ CallFindLayerAtPoint
    \/ CallGetRegionAtWithTolerance

SpecLib == LibInit /\ [][NextLib]_vars

-----------------------------------------------------------------------------
(* app/page.tsx and lib/processImage.ts: from the gallery to the drawing    *)
(* screen.  processImage awaits loadImageData, runs detectRegions, then     *)
(* awaits loadOutlineImage; `pending` is the await it stands at.            *)

\* const IMAGES: the ids of the gallery
IMAGES == 1 .. 3

\* what Home renders
Screen ==
    IF selectedImage # 0 /\ processedData = <<>> THEN "loading"
    ELSE IF processedData # <<>> THEN "drawing"
    ELSE "gallery"

\* the catch block of handleImageSelect leaving selectedImage as it is
handleImageSelectSettledKeepsSelection(result) ==
    /\ pending' = NoPending
    /\ IF result.rejected
       THEN UNCHANGED <<selectedImage, processedData>>
       ELSE /\ processedData' = <<result.data>>
            /\ UNCHANGED selectedImage

\* handleImageSelect after `await processImage(image.src)` has settled:
\* setProcessedData(data), or the catch block
handleImageSelectSettled(result) ==
    /\ pending' = NoPending
    /\ IF result.rejected
       THEN /\ selectedImage' = 0
            /\ UNCHANGED processedData
       ELSE /\ processedData' = <<result.data>>
            /\ UNCHANGED selectedImage

\* nothing loaded yet, the gallery on screen
AppInit == LibInit

\* ImageGallery calls onSelect: handleImageSelect up to its await
SelectImage ==
    /\ Deliver("select")
    /\ Screen = "gallery"
    /\ \E image \in IMAGES : selectedImage' = image
    /\ pending' = [stage |-> "loadImageData"]
    /\ UNCHANGED <<processedData, libVars, stateVars, histVars, rafQueue,
                   stayWithinLines, envVars, ghostVars, call, tolVars, segVars>>

\* img.onload of loadImageData: the pixels are read and processImage goes on
\* to detectRegions and to loadOutlineImage.  (The console.log in between
\* reads the region list of the RegionMap revision processImage was written
\* for; it leaves no state.)
LoadImageDataResolves ==
    /\ Deliver("imageData loaded")
    /\ pending.stage = "loadImageData"
    /\ \E imageData \in InputImages :
         pending' = [stage     |-> "loadOutlineImage",
                     regionMap |-> detectRegions(imageData, BOUNDARY_THRESHOLD, 1)]
    /\ UNCHANGED <<selectedImage, processedData, libVars, stateVars, histVars, rafQueue,
                   stayWithinLines, envVars, ghostVars, call, tolVars, segVars>>

\* img.onerror of loadImageData, or no 2d context for the pixel read
LoadImageDataRejects ==
    /\ Deliver("imageData failed")
    /\ pending.stage = "loadImageData"
    /\ handleImageSelectSettled([rejected |-> TRUE])
    /\ UNCHANGED <<libVars, stateVars, histVars, rafQueue,
                   stayWithinLines, envVars, ghostVars, call, tolVars, segVars>>

\* img.onload of loadOutlineImage: processImage returns {regionMap, outlineImage}
LoadOutlineImageResolves ==
    /\ Deliver("outline loaded")
    /\ pending.stage = "loadOutlineImage"
    /\ handleImageSelectSettled([rejected |-> FALSE,
                                 data     |-> [regionMap |-> pending.regionMap]])
    /\ UNCHANGED <<libVars, stateVars, histVars, rafQueue,
                   stayWithinLines, envVars, ghostVars, call, tolVars, segVars>>

\* img.onerror of loadOutlineImage
LoadOutlineImageRejects ==
    /\ Deliver("outline failed")
    /\ pending.stage = "loadOutlineImage"
    /\ handleImageSelectSettled([rejected |-> TRUE])
    /\ UNCHANGED <<libVars, stateVars, histVars, rafQueue,
                   stayWithinLines, envVars, ghostVars, call, tolVars, segVars>>

\* DrawingScreen calls onBack
handleBack ==
    /\ Deliver("back")
    /\ Screen = "drawing"
    /\ selectedImage' = 0
    /\ processedData' = <<>>
    /\ UNCHANGED <<pending, libVars, stateVars, histVars, rafQueue,
                   stayWithinLines, envVars, ghostVars, call, tolVars, segVars>>

NextApp ==
    \/ SelectImage
    \/ LoadImageDataResolves
    \/ LoadImageDataRejects
    \/ LoadOutlineImageResolves
    \/ LoadOutlineImageRejects
    \/ handleBack

SpecApp == AppInit /\ [][NextApp]_vars

-----------------------------------------------------------------------------
(* unnamed/part_005: the Canvas that draws on one canvas and keeps a stroke *)
(* in its region by testing points of the path with getRegionAtWithTolerance *)

TolW == 20
TolH == 3

QUICK_PATH_DISTANCE == 10
SAMPLE_SPACING == 8
POINTER_TOLERANCE == 4

\* an outline of TolW x TolH pixels, black at the given pixels
TolerantImage(blackPixels) ==
    [width  |-> TolW,
     height |-> TolH,
     data   |-> [idx \in 0 .. TolW * TolH - 1 |->
                   IF <<idx % TolW, idx \div TolW>> \in blackPixels
                   THEN Black ELSE WhiteRGB]]

\* a thin line between two regions; a band wider than the tolerance reaches;
\* a small region in a notch of a larger one
TolerantImages ==
    { TolerantImage({10} \X (0 .. TolH - 1)),
      TolerantImage((6 .. 14) \X (0 .. TolH - 1)),
      TolerantImage(({8, 12} \X {0}) \cup ((8 .. 12) \X {1})) }

TolerantPoints == { Pt(x, y) : x \in 0 .. TolW - 1, y \in 0 .. TolH - 1 }

\* Math.max(Math.ceil(distance / 8), 1), from the square of the distance
Steps(distance2) ==
    CHOOSE k \in 1 .. TolW + TolH :
       /\ SAMPLE_SPACING * SAMPLE_SPACING * k * k >= distance2
       /\ k = 1 \/ SAMPLE_SPACING * SAMPLE_SPACING * (k - 1) * (k - 1) < distance2

\* the pixel the lookup rounds sample i to: Math.round(from + d * (i / steps)),
\* in exact arithmetic
SamplePixel(from, to, i, steps) ==
    Pt((2 * (from.x * steps + (to.x - from.x) * i) + steps) \div (2 * steps),
       (2 * (from.y * steps + (to.y - from.y) * i) + steps) \div (2 * steps))

\* getRegionAtWithTolerance(regionMap, x, y, lockedRegionId, 4) === lockedRegionId
isInRegion(rm, p, locked) ==
    getRegionAtWithTolerance(rm, 2 * p.x, 2 * p.y, locked, POINTER_TOLERANCE) = locked

\* the sampling loop closing a run at the sample that fell out of the region
RECURSIVE SamplePathClosingAtOutside(_, _, _, _, _, _, _, _)
SamplePathClosingAtOutside(rm, from, to, locked, steps, i, segmentStart, segments) ==
    IF i > steps
    THEN IF segmentStart >= 0
         THEN Append(segments, [start |-> segmentStart, end |-> steps])
         ELSE segments
    ELSE IF isInRegion(rm, SamplePixel(from, to, i, steps), locked)
    THEN SamplePathClosingAtOutside(rm, from, to, locked, steps, i + 1,
                    IF segmentStart < 0 THEN i ELSE segmentStart, segments)
    ELSE IF segmentStart >= 0
    THEN SamplePathClosingAtOutside(rm, from, to, locked, steps, i + 1, 0 - 1,
                    Append(segments, [start |-> segmentStart, end |-> i]))
    ELSE SamplePathClosingAtOutside(rm, from, to, locked, steps, i + 1, 0 - 1, segments)

\* the loop over i = 0 .. steps and the closing of the final segment.  A
\* point of the path is named by its sample number: 0 is lastPointRef.current,
\* steps is coords; segmentStart is -1 for null.
RECURSIVE SamplePath(_, _, _, _, _, _, _, _)
SamplePath(rm, from, to, locked, steps, i, segmentStart, segments) ==
    IF i > steps
    THEN IF segmentStart >= 0
         THEN Append(segments, [start |-> segmentStart, end |-> steps])
         ELSE segments
    ELSE IF isInRegion(rm, SamplePixel(from, to, i, steps), locked)
    THEN SamplePath(rm, from, to, locked, steps, i + 1,
                    IF segmentStart < 0 THEN i ELSE segmentStart, segments)
    ELSE IF segmentStart >= 0
    THEN SamplePath(rm, from, to, locked, steps, i + 1, 0 - 1,
                    Append(segments, [start |-> segmentStart, end |-> Max(0, i - 1)]))
    ELSE SamplePath(rm, from, to, locked, steps, i + 1, 0 - 1, segments)

Distance2(a, b) == (b.x - a.x) * (b.x - a.x) + (b.y - a.y) * (b.y - a.y)

\* handlePointerDown without the return for a point that is in no region
handlePointerDownTolerantAnywhere(coords) ==
    /\ isDrawing' = TRUE
    /\ lockedRegionId' = getRegionAt(regionMap, 2 * coords.x, 2 * coords.y)
    /\ lastPointRef' = <<coords>>

handlePointerDownTolerant(coords) ==
    LET regionId == getRegionAt(regionMap, 2 * coords.x, 2 * coords.y)
    IN  IF regionId <= 0
        THEN UNCHANGED <<isDrawing, lockedRegionId, lastPointRef>>
        ELSE /\ isDrawing' = TRUE
             /\ lockedRegionId' = regionId
             /\ lastPointRef' = <<coords>>

\* a pointermove to coords that issued no stroke
NoStroke(coords) == [steps |-> 0, to |-> coords]

\* handlePointerMove moving lastPointRef to the endpoint of a short move
\* whether or not the endpoint is in the region
handlePointerMoveTolerantAlwaysCommitting(coords) ==
    /\ UNCHANGED <<isDrawing, lockedRegionId>>
    /\ IF ~isDrawing \/ lockedRegionId = 0
       THEN UNCHANGED lastPointRef /\ segmentedPath' = NoStroke(coords)
       ELSE IF lastPointRef = <<>>
       THEN /\ lastPointRef' = IF isInRegion(regionMap, coords, lockedRegionId)
                               THEN <<coords>> ELSE <<>>
            /\ segmentedPath' = NoStroke(coords)
       ELSE IF Distance2(lastPointRef[1], coords)
                  < QUICK_PATH_DISTANCE * QUICK_PATH_DISTANCE
       THEN /\ segmentedPath' =
                 IF isInRegion(regionMap, coords, lockedRegionId)
                 THEN [steps |-> 1, quick |-> TRUE,
                       from |-> lastPointRef[1], to |-> coords,
                       segments |-> <<[start |-> 0, end |-> 1]>>]
                 ELSE NoStroke(coords)
            /\ lastPointRef' = <<coords>>
       ELSE LET steps == Steps(Distance2(lastPointRef[1], coords))
            IN  /\ segmentedPath' =
                     [steps |-> steps, quick |-> FALSE,
                      from |-> lastPointRef[1], to |-> coords,
                      segments |-> SamplePath(regionMap, lastPointRef[1], coords,
                                              lockedRegionId, steps, 0, 0, <<>>)]
                /\ lastPointRef' = IF isInRegion(regionMap, coords, lockedRegionId)
                                   THEN <<coords>> ELSE <<>>

\* segmentedPath records the event's point and the ctx.stroke() calls of the
\* handler: none (steps 0), the one of the quick path, or those of the
\* segments of the sampled path
handlePointerMoveTolerant(coords) ==
    /\ UNCHANGED <<isDrawing, lockedRegionId>>
    /\ IF ~isDrawing \/ lockedRegionId = 0
       THEN UNCHANGED lastPointRef /\ segmentedPath' = NoStroke(coords)
       ELSE IF lastPointRef = <<>>
       THEN /\ lastPointRef' = IF isInRegion(regionMap, coords, lockedRegionId)
                               THEN <<coords>> ELSE <<>>
            /\ segmentedPath' = NoStroke(coords)
       ELSE IF Distance2(lastPointRef[1], coords)
                  < QUICK_PATH_DISTANCE * QUICK_PATH_DISTANCE
       THEN IF isInRegion(regionMap, coords, lockedRegionId)
            THEN /\ segmentedPath' = [steps |-> 1, quick |-> TRUE,
                                      from |-> lastPointRef[1], to |-> coords,
                                      segments |-> <<[start |-> 0, end |-> 1]>>]
                 /\ lastPointRef' = <<coords>>
            ELSE UNCHANGED lastPointRef /\ segmentedPath' = NoStroke(coords)
       ELSE LET steps == Steps(Distance2(lastPointRef[1], coords))
            IN  /\ segmentedPath' =
                     [steps |-> steps, quick |-> FALSE,
                      from |-> lastPointRef[1], to |-> coords,
                      segments |-> SamplePath(regionMap, lastPointRef[1], coords,
                                              lockedRegionId, steps, 0, 0, <<>>)]
                /\ lastPointRef' = IF isInRegion(regionMap, coords, lockedRegionId)
                                   THEN <<coords>> ELSE <<>>

handlePointerUpTolerant ==
    /\ isDrawing' = FALSE
    /\ lockedRegionId' = 0
    /\ lastPointRef' = <<>>

TolerantInit ==
    /\ regionMap \in { detectRegions(image, BOUNDARY_THRESHOLD, 1) : image \in TolerantImages }
    /\ layers = <<>>
    /\ surface = <<>>
    /\ lookupTable = NoLookupTable
    /\ isDrawing = FALSE
    /\ activeLayerRef = 0
    /\ lastPointRef = <<>>
    /\ hasMovedRef = FALSE
    /\ hasStateCapturedRef = FALSE
    /\ lastGlobalPositionRef = <<>>
    /\ lastEventTimeRef = 0
    /\ undoStackRef = <<>>
    /\ redoStackRef = <<>>
    /\ rafQueue = <<>>
    /\ stayWithinLines = TRUE
    /\ overCanvas = TRUE
    /\ buttons = 0
    /\ gesture = "none"
    /\ nEvents = 0
    /\ lastEvent = "mount"
    /\ phase = "idle"
    /\ preGesture = <<>>
    /\ snapshotTaken = FALSE
    /\ call = NoCall
    /\ selectedImage = 0
    /\ processedData = <<>>
    /\ pending = NoPending
    /\ lockedRegionId = 0
    /\ segmentedPath = NoPath
    /\ detect = NoDetect
    /\ fill = NoFill

TolerantPointerDown ==
    /\ Deliver("pointerdown")
    /\ buttons = 0
    /\ \E coords \in TolerantPoints : handlePointerDownTolerant(coords)
    /\ buttons' = 1
    /\ segmentedPath' = NoPath
    /\ UNCHANGED <<regionMap, layers, surface, lookupTable, activeLayerRef, hasMovedRef,
                   hasStateCapturedRef, lastGlobalPositionRef, lastEventTimeRef,
                   histVars, rafQueue, stayWithinLines, overCanvas, gesture,
                   ghostVars, call, appVars, segVars>>

TolerantPointerMove ==
    /\ Deliver("pointermove")
    /\ \E coords \in TolerantPoints : handlePointerMoveTolerant(coords)
    /\ UNCHANGED <<regionMap, layers, surface, lookupTable, activeLayerRef, hasMovedRef,
                   hasStateCapturedRef, lastGlobalPositionRef, lastEventTimeRef,
                   histVars, rafQueue, stayWithinLines, envVars, ghostVars, call, appVars, segVars>>

\* onPointerUp and onPointerLeave are both handlePointerUp
TolerantPointerUp ==
    /\ Deliver("pointerup")
    /\ buttons = 1
    /\ handlePointerUpTolerant
    /\ buttons' = 0
    /\ segmentedPath' = NoPath
    /\ UNCHANGED <<regionMap, layers, surface, lookupTable, activeLayerRef, hasMovedRef,
                   hasStateCapturedRef, lastGlobalPositionRef, lastEventTimeRef,
                   histVars, rafQueue, stayWithinLines, overCanvas, gesture,
                   ghostVars, call, appVars, segVars>>

NextTolerant ==
    \/ TolerantPointerDown
    \/ TolerantPointerMove
    \/ TolerantPointerUp

SpecTolerant == TolerantInit /\ [][NextTolerant]_vars

-----------------------------------------------------------------------------
(* Properties *)

PointerDraws == {"pointermove", "pointerleave", "pointerenter"}
InMask(i, idx) == layers[i].mask.data[idx].a = OPAQUE_ALPHA

\* C1: with stay-within-lines on, whatever clipped strokes (any brush size,
\* soft or solid, ink or eraser) have been drawn on the freshly built layers,
\* every pixel of a layer's surface that is not transparent lies inside that
\* layer's mask.
C1_ClipContainment ==
    \A i \in 1 .. Len(layers) : \A idx \in DOMAIN surface[i] :
        surface[i][idx].a # TRANSPARENT_ALPHA => InMask(i, idx)

\* C1 witness: a clipped move stroke has ended outside the mask of the locked
\* layer and has inked that layer inside it
C1_Witness ==
    /\ lastEvent = "pointermove"
    /\ stayWithinLines /\ activeLayerRef # 0 /\ lastPointRef # <<>>
    /\ ~InMask(activeLayerRef, lastPointRef[1].y * canvasWidth + lastPointRef[1].x)
    /\ \E idx \in DOMAIN surface[activeLayerRef] :
         InMask(activeLayerRef, idx) /\ surface[activeLayerRef][idx].c # White

\* C2: in every reachable state of the session (free-draw strokes, undo, redo
\* and clear included), a clipped stroke on a layer, whatever its end points
\* and brush, changes no pixel of that layer's surface outside the layer's mask.
C2_ClippedStrokeChangesNothingOutsideMask ==
    \A i \in 1 .. Len(layers) : \A from \in CanvasPoints, to \in CanvasPoints, brush \in Brushes :
        \A idx \in DOMAIN surface[i] :
            ~InMask(i, idx) =>
                drawStrokeWithClipping(surface[i], canvasWidth, layers[i].mask,
                                       BrushOp(from, to, brush))[idx] = surface[i][idx]

\* C3: when a gesture is complete (accepted pointerdown, moves, pointerup),
\* undo() leaves every layer surface as it was just before that pointerdown.
C3_UndoRestoresPreGesture ==
    phase = "done" => undo(History).surface = preGesture

\* C4: whenever the undo stack is not empty, undo() then redo() leaves every
\* layer surface as it was and both stacks with the lengths they had.
C4_UndoRedoRoundTrip ==
    canUndo(History) =>
        LET h == redo(undo(History))
        IN  /\ h.surface = surface
            /\ Len(h.undo) = Len(undoStackRef)
            /\ Len(h.redo) = Len(redoStackRef)

\* C4 witness: a redo has just put back a change that an undo had reverted
C4_Witness ==
    /\ lastEvent = "redo"
    /\ canUndo(History)
    /\ undo(History).surface # surface

\* C5: an input event changes a layer surface only if a snapshot was pushed
\* for the press of the button it belongs to (a press that began by entering
\* with the button held included), and clear pushes exactly the current
\* state and empties the redo stack.
C5_SnapshotBeforeEveryMutation ==
    [][ /\ (lastEvent' \in PointerDraws /\ surface' # surface) => snapshotTaken
        /\ (lastEvent' = "pointerdown" /\ rafQueue' # rafQueue) =>
              (undoStackRef' = Append(undoStackRef, captureState(surface)) /\
               redoStackRef' = <<>>)
        /\ lastEvent' = "clear" =>
              (undoStackRef' = Append(undoStackRef, captureState(surface)) /\
               redoStackRef' = <<>>) ]_vars

\* C6: every accepted pointerdown starts a gesture with a snapshot of its
\* own, whatever leave, re-enter or release outside came before it, and
\* move, leave, enter and up events push nothing.
C6_OneSnapshotPerGesture ==
    [][ /\ (lastEvent' = "pointerdown" /\ rafQueue' # rafQueue) =>
              Len(undoStackRef') = Len(undoStackRef) + 1
        /\ lastEvent' \in PointerDraws \cup {"pointerup"} => UNCHANGED histVars ]_vars

\* C7: the dot a pointerdown defers to the next frame is drawn while the
\* press that scheduled it is still held: a frame never runs a dot after the
\* pointerup of its gesture, nor after an undo, redo or clear that follows it.
C7_DotLandsBeforeGestureEnds ==
    [][ lastEvent' = "frame" =>
          (gesture \in {"locked", "free"} /\ Len(rafQueue) = 1 /\
           lastEvent \notin {"undo", "redo", "clear"}) ]_vars

\* C8: throughout a gesture begun in stay-within-lines mode, across leaving
\* and re-entering the container, the locked layer is the one the accepted
\* pointerdown resolved from its own point, and while the mode is on its
\* move, leave and enter strokes touch no other layer.
C8_LockedLayerFixed ==
    [][ gesture' = "locked" =>
          /\ gesture = "locked" => activeLayerRef' = activeLayerRef
          /\ gesture # "locked" =>
                (/\ lastPointRef' # <<>>
                 /\ activeLayerRef' # 0
                 /\ activeLayerRef' = findLayerAtPoint(layers, 2 * lastPointRef'[1].x,
                                                       2 * lastPointRef'[1].y, lookupTable))
          /\ (gesture = "locked" /\ stayWithinLines /\ lastEvent' \in PointerDraws) =>
                \A i \in 1 .. Len(layers) : i # activeLayerRef => surface'[i] = surface[i] ]_vars

\* C8 witness: a locked gesture has re-entered the container over another
\* layer's region and goes on with the layer it was locked to
C8_Witness ==
    /\ lastEvent = "pointerenter"
    /\ gesture = "locked" /\ isDrawing /\ activeLayerRef # 0 /\ lastPointRef # <<>>
    /\ findLayerAtPoint(layers, 2 * lastPointRef[1].x, 2 * lastPointRef[1].y, lookupTable)
          \notin {0, activeLayerRef}

\* C9 (as stated): getRegionAtWithTolerance returns only 0, the boundary
\* marker or the target id.
C9_OnlyTargetOrMarkers ==
    call.fn = "getRegionAtWithTolerance" =>
        call.result \in {0, BOUNDARY, call.targetRegionId}

\* C9 (amended): getRegionAtWithTolerance returns the id of the region the
\* rounded point itself lies in when it lies in one; otherwise it returns
\* only 0, the boundary marker or the target id: the scan of the
\* neighbourhood never resolves to a region other than the target.
C9_ScanResolvesOnlyToTarget ==
    call.fn = "getRegionAtWithTolerance" =>
        IF getRegionAt(regionMap, call.x, call.y) > 0
        THEN call.result = getRegionAt(regionMap, call.x, call.y)
        ELSE call.result \in {0, BOUNDARY, call.targetRegionId}

\* C9 witness: a boundary pixel with two regions within the tolerance is
\* resolved to the target
C9_Witness ==
    /\ call.fn = "getRegionAtWithTolerance"
    /\ getRegionAt(regionMap, call.x, call.y) = BOUNDARY
    /\ call.targetRegionId > 0
    /\ call.result = call.targetRegionId
    /\ \E xh \in 0 .. 2 * regionMap.width, yh \in 0 .. 2 * regionMap.height :
         /\ (MathRound(xh) - MathRound(call.x)) \in 0 - call.tolerance .. call.tolerance
         /\ (MathRound(yh) - MathRound(call.y)) \in 0 - call.tolerance .. call.tolerance
         /\ getRegionAt(regionMap, xh, yh) > 0
         /\ getRegionAt(regionMap, xh, yh) # call.targetRegionId

\* C10: once the layers are built from a region map, at every pixel at most
\* one layer's mask is opaque, and the mask of a layer is opaque at a pixel
\* exactly when pixelToRegion holds that layer's id there.
C10_MasksDisjoint ==
    call.fn = "generateLayers" =>
        \A y \in 0 .. regionMap.height - 1, x \in 0 .. regionMap.width - 1 :
            /\ Cardinality({ k \in 1 .. Len(layers) :
                               layers[k].mask.data[y * regionMap.width + x].a = OPAQUE_ALPHA }) <= 1
            /\ \A k \in 1 .. Len(layers) :
                 (layers[k].mask.data[y * regionMap.width + x].a = OPAQUE_ALPHA)
                    <=> (regionMap.pixelToRegion[y][x] = layers[k].id)

\* C10 witness: layers built from a map with two regions and a boundary pixel
C10_Witness ==
    /\ call.fn = "generateLayers"
    /\ Len(layers) >= 2
    /\ \E y \in 0 .. regionMap.height - 1, x \in 0 .. regionMap.width - 1 :
         regionMap.pixelToRegion[y][x] = BOUNDARY

\* C11: in the table built from the layers with the masks' width and
\* height, the entry of every pixel is the sentinel exactly when no layer's
\* mask is opaque there, and otherwise is the position (from 0) of the one
\* layer whose mask is opaque there.
C11_LookupAgreesWithMasks ==
    (call.fn = "generateLayers" /\ ~call.threw) =>
        /\ lookupTable.width = regionMap.width
        /\ lookupTable.height = regionMap.height
        /\ \A idx \in 0 .. regionMap.width * regionMap.height - 1 :
             LET Opaque == { k \in 1 .. Len(layers) :
                               layers[k].mask.data[idx].a = OPAQUE_ALPHA }
             IN  /\ (lookupTable.data[idx] = NO_LAYER_SENTINEL) <=> (Opaque = {})
                 /\ lookupTable.data[idx] # NO_LAYER_SENTINEL =>
                        Opaque = {lookupTable.data[idx] + 1}

\* C11 witness: a table built for two layers, with an entry for the second
\* layer and a sentinel entry
C11_Witness ==
    /\ call.fn = "generateLayers" /\ ~call.threw
    /\ Len(layers) >= 2
    /\ \E idx \in DOMAIN lookupTable.data : lookupTable.data[idx] = 1
    /\ \E idx \in DOMAIN lookupTable.data : lookupTable.data[idx] = NO_LAYER_SENTINEL

OutOfBounds(xh, yh) ==
    \/ MathRound(xh) < 0 \/ MathRound(xh) >= regionMap.width
    \/ MathRound(yh) < 0 \/ MathRound(yh) >= regionMap.height

\* C15: for every point outside the image, getRegionAt returns 0 and
\* findLayerAtPoint returns no layer, with the lookup table and without it.
C15_OutOfBoundsIsNoRegion ==
    /\ (call.fn = "getRegionAt" /\ OutOfBounds(call.x, call.y)) => call.result = 0
    /\ (call.fn = "findLayerAtPoint" /\ OutOfBounds(call.x, call.y)) => call.result = 0

\* C20: when the context of one region's canvas cannot be had, generateLayers
\* still returns, with the layers of all the other regions.
C20_FailedRegionIsSkipped ==
    call.fn = "generateLayers" =>
        /\ ~call.threw
        /\ { layers[i].id : i \in 1 .. Len(layers) } =
              (1 .. regionMap.regionCount) \ call.noContext

\* the connected areas of non-boundary pixels of an image, found from the
\* image alone
LightPixels(imageData) ==
    { p \in (0 .. imageData.width - 1) \X (0 .. imageData.height - 1) :
        imageData.data[p[2] * imageData.width + p[1]].r
          + imageData.data[p[2] * imageData.width + p[1]].g
          + imageData.data[p[2] * imageData.width + p[1]].b >= 3 * BOUNDARY_THRESHOLD }

RECURSIVE AreaFrom(_, _)
AreaFrom(light, area) ==
    LET more == { q \in light \ area :
                    \E p \in area :
                       (q[1] - p[1]) * (q[1] - p[1]) + (q[2] - p[2]) * (q[2] - p[2]) = 1 }
    IN  IF more = {} THEN area ELSE AreaFrom(light, area \cup more)

Areas(imageData) ==
    { AreaFrom(LightPixels(imageData), {p}) : p \in LightPixels(imageData) }

PositiveIds(rm) ==
    { rm.pixelToRegion[y][x] : x \in 0 .. rm.width - 1, y \in 0 .. rm.height - 1 }
        \cap (1 .. rm.width * rm.height)

\* C12: after detectRegions the positive values of pixelToRegion are exactly
\* 1 .. regionCount, for every image and minRegionSize, also when a discarded
\* area lies between two kept regions in scan order.
C12_RegionIdsDense ==
    PositiveIds(regionMap) = 1 .. regionMap.regionCount

\* C12 witness: a map with two regions and a discarded light pixel that the
\* scan meets after region 1 and before any pixel of region 2
C12_Witness ==
    /\ call.fn = "detectRegions"
    /\ regionMap.regionCount = 2
    /\ \E n \in LightPixels(call.imageData) :
         /\ regionMap.pixelToRegion[n[2]][n[1]] = BOUNDARY
         /\ \E a \in LightPixels(call.imageData) :
              /\ regionMap.pixelToRegion[a[2]][a[1]] = 1
              /\ a[2] * regionMap.width + a[1] < n[2] * regionMap.width + n[1]
         /\ \A b \in LightPixels(call.imageData) :
              regionMap.pixelToRegion[b[2]][b[1]] = 2 =>
                  b[2] * regionMap.width + b[1] > n[2] * regionMap.width + n[1]

\* C13: a connected non-boundary area of fewer than minRegionSize pixels has
\* all its pixels relabelled -1 and adds nothing to regionCount; an area of
\* minRegionSize pixels or more is one region with an id of its own.
C13_NoiseFiltered ==
    call.fn = "detectRegions" =>
        LET Kept == { a \in Areas(call.imageData) : Cardinality(a) >= call.minRegionSize }
        IN  /\ \A a \in Areas(call.imageData) \ Kept :
                 \A p \in a : regionMap.pixelToRegion[p[2]][p[1]] = BOUNDARY
            /\ \A a \in Kept :
                 \E id \in 1 .. regionMap.regionCount :
                    \A p \in LightPixels(call.imageData) :
                       (regionMap.pixelToRegion[p[2]][p[1]] = id) <=> (p \in a)
            /\ regionMap.regionCount = Cardinality(Kept)

\* C13 witness: an image with an area one pixel short of minRegionSize and an
\* area of exactly minRegionSize pixels
C13_Witness ==
    /\ call.fn = "detectRegions"
    /\ \E a \in Areas(call.imageData) : Cardinality(a) = call.minRegionSize - 1
    /\ \E a \in Areas(call.imageData) :
         /\ Cardinality(a) = call.minRegionSize
         /\ \A p \in a : regionMap.pixelToRegion[p[2]][p[1]] > 0

\* the pixels enclosed by the outline of SquareOutlineImage
InsideOutline == (2 .. SceneSize - 3) \X (2 .. SceneSize - 3)
SquareOutlineProcessed ==
    /\ call.fn = "detectRegions"
    /\ call.imageData = SquareOutlineImage
    /\ call.minRegionSize <= Cardinality(InsideOutline)

C16_DownOutsideRegionsIgnored ==
    [][ (lastEvent' = "pointerdown" /\ nEvents' = nEvents + 1 /\ gesture' = "noregion") =>
          /\ ~isDrawing'
          /\ UNCHANGED <<isDrawing, activeLayerRef, lastPointRef, hasStateCapturedRef>>
          /\ undoStackRef' = undoStackRef
          /\ redoStackRef' = redoStackRef
          /\ rafQueue' = rafQueue
          /\ surface' = surface ]_vars

\* C16 witness: a pointerdown on a boundary line, past the debounce window,
\* with a redo stack that is not empty
C16_Witness ==
    /\ lastEvent = "pointerdown"
    /\ gesture = "noregion"
    /\ lastEventTimeRef # 0
    /\ redoStackRef # <<>>
    /\ undoStackRef # <<>>

\* the dot of a tap as the callback should leave it: in stay-within-lines
\* mode on the locked layer only and inside its mask only, in free-draw mode
\* on every layer
TapDot(surf, cb) ==
    LET op == BrushOp(cb.coords, cb.coords, cb.brush)
    IN  IF cb.stayWithinLines
        THEN [i \in DOMAIN surf |->
                IF i = cb.currentLayer
                THEN [idx \in DOMAIN surf[i] |->
                        IF InMask(i, idx)
                        THEN Paint(surf[i], canvasWidth, "source-over", op)[idx]
                        ELSE surf[i][idx]]
                ELSE surf[i]]
        ELSE [i \in DOMAIN surf |-> Paint(surf[i], canvasWidth, "source-over", op)]

\* C17: every accepted pointerdown schedules one dot, and the frame that runs
\* it leaves exactly a filled dot of radius brushSize/2 at the point of the
\* pointerdown: inside the mask of the locked layer and nowhere else in
\* stay-within-lines mode, on every layer in free-draw mode.
C17_TapLeavesClippedDot ==
    [][ /\ (lastEvent' = "pointerdown" /\ gesture' \in {"locked", "free"}) =>
              Len(rafQueue') = Len(rafQueue) + 1
        /\ (lastEvent' = "frame" /\ Len(rafQueue) = 1) =>
              surface' = TapDot(surface, rafQueue[1]) ]_vars

\* C18: in every reachable state, clear() followed by clear() leaves every
\* layer surface as a single clear() leaves it, which is the layer's mask
\* alone, as the surface was when the layers were built.
C18_ClearIdempotent ==
    /\ clear(clear(History)).surface = clear(History).surface
    /\ clear(History).surface = InitialSurfaces(layers)

\* C18 witness: clear has been called twice in a row on a session that had
\* drawn something: the surface is the masks alone, the newest snapshot is of
\* the cleared surface and the one below it is of the drawing
C18_Witness ==
    /\ lastEvent = "clear"
    /\ surface = InitialSurfaces(layers)
    /\ Len(undoStackRef) >= 2
    /\ undoStackRef[Len(undoStackRef)] = captureState(InitialSurfaces(layers))
    /\ undoStackRef[Len(undoStackRef) - 1] # captureState(InitialSurfaces(layers))

\* C19: undo() with an empty undo stack and redo() with an empty redo stack
\* change neither stack nor any layer surface, and canUndo()/canRedo() are
\* true exactly when the respective stack is not empty.
C19_EmptyStackNoOp ==
    /\ [](/\ canUndo(History) <=> undoStackRef # <<>>
          /\ canRedo(History) <=> redoStackRef # <<>>
          /\ undoStackRef = <<>> => undo(History) = History
          /\ redoStackRef = <<>> => redo(History) = History)
    /\ [][ /\ (lastEvent' = "undo" /\ nEvents' = nEvents + 1 /\ undoStackRef = <<>>) =>
                UNCHANGED <<surface, undoStackRef, redoStackRef>>
           /\ (lastEvent' = "redo" /\ nEvents' = nEvents + 1 /\ redoStackRef = <<>>) =>
                UNCHANGED <<surface, undoStackRef, redoStackRef>> ]_vars

\* C19 witness: redo() has been called with an empty redo stack while a
\* gesture that pushed its snapshot is under way
C19_Witness ==
    /\ lastEvent = "redo"
    /\ redoStackRef = <<>>
    /\ gesture \in {"locked", "free"}
    /\ undoStackRef # <<>>
    /\ ~canRedo(History)

\* C21: when loadImageData or loadOutlineImage fails, processImage is
\* rejected: Home goes from the loading screen back to the gallery with no
\* processed data (no RegionMap), and from the choice of the image to the
\* failure the drawing screen is never shown.
C21_LoadFailureBackToGallery ==
    /\ [](pending.stage # "none" => (Screen = "loading" /\ processedData = <<>>))
    /\ [][ (lastEvent' \in {"imageData failed", "outline failed"} /\ nEvents' = nEvents + 1) =>
              /\ Screen = "loading"
              /\ Screen' = "gallery"
              /\ processedData' = <<>>
              /\ pending' = NoPending ]_vars

\* C21 witness: after one image was drawn on and left, the next image fails
\* to load and the gallery is back
C21_Witness ==
    /\ lastEvent = "imageData failed"
    /\ nEvents >= 6
    /\ Screen = "gallery"

\* C22: a pointerdown/touchstart pair for one contact, the second less than
\* 50 ms after the first, changes nothing with the second (no ref, no state,
\* no stack, no callback, no surface), and the contact has pushed exactly one
\* snapshot and scheduled exactly one dot.
C22_OneSnapshotOneDotPerContact ==
    /\ [][ (lastEvent' = "touchstart in debounce window" /\ nEvents' = nEvents + 1) =>
              UNCHANGED <<surface, stateVars, histVars, rafQueue>> ]_vars
    /\ [](lastEvent = "touchstart in debounce window" =>
              (snapshotTaken /\ rafQueue # <<>>))

\* C23: isBoundaryPixel is true exactly when the average of r, g and b is
\* strictly below the threshold, that is when r + g + b < 3 * threshold;
\* a pixel whose average equals the threshold is not a boundary, and the
\* alpha of the pixel makes no difference.
C23_BoundaryIffAverageBelowThreshold ==
    call.fn = "isBoundaryPixel" =>
        /\ call.result <=> (\E q \in 0 .. 255, rest \in 0 .. 2 :
                               /\ call.r + call.g + call.b = 3 * q + rest
                               /\ q < call.threshold)
        /\ (call.r + call.g + call.b = 3 * call.threshold) => ~call.result
        /\ \A a \in AlphaSamples :
             isBoundaryPixel(getPixelColor(OnePixelImage(call.r, call.g, call.b, a), 0, 0),
                             call.threshold) = call.result

\* C23 witness: a transparent pixel with three different channel values whose
\* average is exactly the threshold has been classified as fillable
C23_Witness ==
    /\ call.fn = "isBoundaryPixel"
    /\ call.r < call.g /\ call.g < call.b
    /\ call.r + call.g + call.b = 3 * call.threshold
    /\ call.a = TRANSPARENT_ALPHA
    /\ ~call.result

\* C24: detectRegions called without minRegionSize discards every connected
\* non-boundary area of fewer than 100 pixels: an all-white image of fewer
\* than 100 pixels has no region.
C24_DefaultMinRegionSizeIs100 ==
    (call.fn = "detectRegionsWithDefaults"
        /\ call.imageData.width * call.imageData.height < MIN_REGION_SIZE) =>
            regionMap.regionCount = 0

\* a segment as the clip rules of a stroke should leave it: a locked stroke
\* inks the locked layer inside its mask and nothing else, a free stroke inks
\* every layer
StrokeUnderClipRules(surf, locked, from, to, brush) ==
    LET op == BrushOp(from, to, brush)
    IN  [i \in DOMAIN surf |->
           [idx \in DOMAIN surf[i] |->
              IF locked = 0 \/ (i = locked /\ InMask(i, idx))
              THEN Paint(surf[i], canvasWidth, "source-over", op)[idx]
              ELSE surf[i][idx]]]

\* the gesture under way is being drawn in the mode it began in
StrokeInProgress ==
    /\ isDrawing /\ lastPointRef # <<>>
    /\ \/ gesture = "locked" /\ stayWithinLines /\ activeLayerRef # 0
       \/ gesture = "free" /\ ~stayWithinLines

\* C25: a pointerleave during a stroke draws the one segment from the last
\* point to the exit point under the clip rules of the stroke, keeps the
\* locked layer and ends drawing; from then on a pointermove draws nothing
\* and a pointerenter without the button does not resume.
C25_LeaveDrawsFinalSegmentAndSuspends ==
    [][ /\ (lastEvent' = "pointerleave" /\ nEvents' = nEvents + 1 /\ StrokeInProgress) =>
              /\ \E exitCoords \in ExitPoints, brush \in Brushes :
                    surface' = StrokeUnderClipRules(surface,
                                   IF stayWithinLines THEN activeLayerRef ELSE 0,
                                   lastPointRef[1], exitCoords, brush)
              /\ activeLayerRef' = activeLayerRef
              /\ ~isDrawing'
        /\ (lastEvent' = "pointermove" /\ nEvents' = nEvents + 1 /\ ~isDrawing) =>
              surface' = surface
        /\ (lastEvent' = "pointerenter" /\ nEvents' = nEvents + 1 /\ buttons # 1) =>
              (surface' = surface /\ isDrawing' = isDrawing) ]_vars

\* C26: when a stroke that left the container with the button held comes
\* back with the button still held, a position recorded while the button was
\* held is at hand, and the segment from it to the entry point is drawn (on
\* the locked layer, or on every layer in free mode).
C26_ReentryDrawsFromRecordedPosition ==
    [][ (lastEvent' = "pointerenter" /\ nEvents' = nEvents + 1
            /\ buttons = 1 /\ gesture \in {"locked", "free"}) =>
          /\ lastGlobalPositionRef # <<>>
          /\ lastPointRef' # <<>>
          /\ \E brush \in Brushes :
                surface' = DrawSegment(surface, lastGlobalPositionRef[1],
                                       lastPointRef'[1], brush) ]_vars

\* the events whose handlers run a stroke operation
StrokeEvents == {"frame", "pointermove", "pointerleave", "pointerenter"}

\* a stroke operation of free-draw mode is about to run on fresh layers
FreeStrokeOnFreshLayers ==
    /\ surface = InitialSurfaces(layers)
    /\ ~stayWithinLines
    /\ \A k \in 1 .. Len(rafQueue) : ~rafQueue[k].stayWithinLines

\* C27: a stroke operation of free-draw mode on fresh layers leaves all the
\* layers with the same ink at every pixel it touched.
C27_FreeDrawSameInkOnEveryLayer ==
    [][ (FreeStrokeOnFreshLayers /\ lastEvent' \in StrokeEvents
            /\ nEvents' = nEvents + 1) =>
          \A idx \in DOMAIN surface[1] :
             (\E i \in DOMAIN surface : surface'[i][idx] # surface[i][idx]) =>
                \A i, j \in DOMAIN surface : surface'[i][idx] = surface'[j][idx] ]_vars

\* C28: while a gesture locked to a layer is under way or suspended by a
\* leave, and stay-within-lines stays on, a move, leave or enter event
\* leaves the surface of every layer but the locked one as it was.
C28_OnlyLockedLayerChanges ==
    [][ (/\ gesture = "locked" /\ gesture' = "locked"
         /\ stayWithinLines /\ stayWithinLines'
         /\ lastEvent' \in PointerDraws /\ nEvents' = nEvents + 1) =>
          \A i \in DOMAIN surface :
             surface'[i] # surface[i] => (activeLayerRef # 0 /\ i = activeLayerRef) ]_vars

\* C28 witness: the move after a locked pointerdown has inked the locked
\* layer, and the other layers are as they were made
C28_Witness ==
    /\ nEvents = 2 /\ lastEvent = "pointermove"
    /\ gesture = "locked" /\ stayWithinLines /\ activeLayerRef # 0
    /\ surface[activeLayerRef] # InitialSurfaces(layers)[activeLayerRef]
    /\ \A i \in DOMAIN surface :
          i # activeLayerRef => surface[i] = InitialSurfaces(layers)[i]

\* C29: a layer locked by a gesture is drawn on by that gesture only: a
\* move, leave or enter event that inks a layer in stay-within-lines mode
\* belongs to a gesture whose own pointerdown locked a layer.
C29_StaleLockNeverDrawnOn ==
    [][ (/\ stayWithinLines /\ lastEvent' \in PointerDraws
         /\ nEvents' = nEvents + 1 /\ surface' # surface) =>
          gesture = "locked" ]_vars

\* the pixel sample i of the last long move was looked up at resolves, with
\* tolerance, to the region the stroke is locked to
SampleInRegion(i) ==
    isInRegion(regionMap,
               SamplePixel(segmentedPath.from, segmentedPath.to, i, segmentedPath.steps),
               lockedRegionId)

\* C30: a move of at least the quick-path distance is sampled at steps of at
\* most 8 px; every stroke it issues starts and ends at a sample that
\* resolves with tolerance to the locked region, with no out-of-region sample
\* between them; and a run that a sample out of the region ends is closed at
\* the sample before it.
C30_SegmentsEndInsideRegion ==
    (segmentedPath.steps > 0 /\ ~segmentedPath.quick) =>
       /\ Distance2(segmentedPath.from, segmentedPath.to)
             >= QUICK_PATH_DISTANCE * QUICK_PATH_DISTANCE
       /\ Distance2(segmentedPath.from, segmentedPath.to)
             <= SAMPLE_SPACING * SAMPLE_SPACING * segmentedPath.steps * segmentedPath.steps
       /\ \A k \in 1 .. Len(segmentedPath.segments) :
             LET seg == segmentedPath.segments[k]
             IN  /\ 0 <= seg.start /\ seg.start <= seg.end /\ seg.end <= segmentedPath.steps
                 /\ \A i \in seg.start .. seg.end : SampleInRegion(i)
       /\ \A i \in 1 .. segmentedPath.steps :
             (SampleInRegion(i - 1) /\ ~SampleInRegion(i)) =>
                \E k \in 1 .. Len(segmentedPath.segments) :
                   segmentedPath.segments[k].end = i - 1

\* C30 witness: a long move left the region part of the way; the run was
\* closed, after more than one sample, before the end of the move
C30_Witness ==
    /\ segmentedPath.steps > 0 /\ ~segmentedPath.quick
    /\ \E k \in 1 .. Len(segmentedPath.segments) :
          /\ segmentedPath.segments[k].start < segmentedPath.segments[k].end
          /\ segmentedPath.segments[k].end < segmentedPath.steps
          /\ ~SampleInRegion(segmentedPath.segments[k].end + 1)

\* a pointermove reaches the sampling code of the tolerant Canvas: a gesture
\* is in progress and a last point is set
TolerantMoveFromPoint ==
    /\ lastEvent' = "pointermove" /\ nEvents' = nEvents + 1
    /\ isDrawing /\ lockedRegionId # 0 /\ lastPointRef # <<>>

\* C31: a move of less than 10 px from the last point draws exactly one
\* straight segment from the last point to the endpoint, and commits the
\* endpoint, when the endpoint resolves with tolerance to the locked region;
\* otherwise it draws nothing and leaves the last point as it was.
C31_QuickPathOneSegmentOrNothing ==
    [][ (/\ TolerantMoveFromPoint
         /\ Distance2(lastPointRef[1], segmentedPath'.to)
               < QUICK_PATH_DISTANCE * QUICK_PATH_DISTANCE) =>
          IF isInRegion(regionMap, segmentedPath'.to, lockedRegionId)
          THEN /\ segmentedPath'.steps = 1
               /\ segmentedPath'.from = lastPointRef[1]
               /\ segmentedPath'.segments = <<[start |-> 0, end |-> 1]>>
               /\ lastPointRef' = <<segmentedPath'.to>>
          ELSE /\ segmentedPath'.steps = 0
               /\ lastPointRef' = lastPointRef ]_vars

\* C31 witness: after a short move that was drawn, a short move to a point
\* out of the region has drawn nothing and the last point is where the
\* first move left it
C31_Witness ==
    /\ nEvents = 3 /\ lastEvent = "pointermove"
    /\ isDrawing /\ lastPointRef # <<>>
    /\ segmentedPath.steps = 0
    /\ Distance2(lastPointRef[1], segmentedPath.to)
          < QUICK_PATH_DISTANCE * QUICK_PATH_DISTANCE
    /\ ~isInRegion(regionMap, segmentedPath.to, lockedRegionId)

\* the move delivered last ended at a point that does not resolve to the
\* locked region, and the move being delivered ends at one that does
ReentersLockedRegion ==
    /\ lastEvent = "pointermove" /\ lastEvent' = "pointermove" /\ nEvents' = nEvents + 1
    /\ isDrawing /\ lockedRegionId # 0
    /\ ~isInRegion(regionMap, segmentedPath.to, lockedRegionId)
    /\ isInRegion(regionMap, segmentedPath'.to, lockedRegionId)

\* C32: a long move that ends out of the locked region clears the last
\* point; and whenever the stroke has left the region and comes back into
\* it, the move that re-enters draws no line from where the stroke left:
\* it finds no last point and only sets it to the point of re-entry.
C32_NoLineFromExitToReentry ==
    [][ /\ (/\ TolerantMoveFromPoint
            /\ segmentedPath'.steps > 0 /\ ~segmentedPath'.quick
            /\ ~isInRegion(regionMap, segmentedPath'.to, lockedRegionId)) =>
              lastPointRef' = <<>>
        /\ ReentersLockedRegion =>
              /\ lastPointRef = <<>>
              /\ segmentedPath'.steps = 0
              /\ lastPointRef' = <<segmentedPath'.to>> ]_vars

\* C33: while a gesture of the tolerant Canvas is in progress and its last
\* point is set, the gesture is locked to a region and the last point
\* resolves to that region with tolerance 4.
C33_LastPointInLockedRegion ==
    (isDrawing /\ lastPointRef # <<>>) =>
       /\ lockedRegionId > 0
       /\ isInRegion(regionMap, lastPointRef[1], lockedRegionId)

\* C33 witness: a sampled move has ended on a boundary pixel that resolves to
\* the locked region by tolerance only, and that pixel is now the last point
C33_Witness ==
    /\ isDrawing /\ lastPointRef # <<>>
    /\ lastEvent = "pointermove"
    /\ segmentedPath.steps > 1
    /\ lastPointRef[1] = segmentedPath.to
    /\ getRegionAt(regionMap, 2 * lastPointRef[1].x, 2 * lastPointRef[1].y) = BOUNDARY

\* the pixels a region map gives the id
RegionPixels(rm, id) ==
    { p \in (0 .. rm.width - 1) \X (0 .. rm.height - 1) : rm.pixelToRegion[p[2]][p[1]] = id }

Adjacent4(p, q) ==
    (q[1] - p[1]) * (q[1] - p[1]) + (q[2] - p[2]) * (q[2] - p[2]) = 1

\* C34: in the map detectRegions returns, two 4-adjacent pixels with positive
\* ids have the same id, and the pixels of each id 1 .. regionCount are
\* non-boundary pixels of the image, 4-connected among themselves, closed
\* under stepping to a 4-adjacent non-boundary pixel, and at least
\* minRegionSize in number.
C34_RegionIsMaximalConnectedSet ==
    call.fn = "detectRegions" =>
        /\ \A p, q \in (0 .. regionMap.width - 1) \X (0 .. regionMap.height - 1) :
              (/\ Adjacent4(p, q)
               /\ regionMap.pixelToRegion[p[2]][p[1]] > 0
               /\ regionMap.pixelToRegion[q[2]][q[1]] > 0) =>
                 regionMap.pixelToRegion[p[2]][p[1]] = regionMap.pixelToRegion[q[2]][q[1]]
        /\ \A id \in 1 .. regionMap.regionCount :
              LET S == RegionPixels(regionMap, id)
              IN  /\ S # {}
                  /\ S \subseteq LightPixels(call.imageData)
                  /\ AreaFrom(S, {CHOOSE p \in S : TRUE}) = S
                  /\ \A p \in S, q \in LightPixels(call.imageData) : Adjacent4(p, q) => q \in S
                  /\ Cardinality(S) >= call.minRegionSize

\* C34 witness: two regions whose only contact is across a diagonal
C34_Witness ==
    /\ call.fn = "detectRegions"
    /\ \E p, q \in (0 .. regionMap.width - 1) \X (0 .. regionMap.height - 1) :
          /\ (q[1] - p[1]) * (q[1] - p[1]) = 1 /\ (q[2] - p[2]) * (q[2] - p[2]) = 1
          /\ regionMap.pixelToRegion[p[2]][p[1]] > 0
          /\ regionMap.pixelToRegion[q[2]][q[1]] > 0
          /\ regionMap.pixelToRegion[p[2]][p[1]] # regionMap.pixelToRegion[q[2]][q[1]]

\* C35: in the map detectRegions returns, every cell of pixelToRegion is -1
\* or an id in 1 .. regionCount, none is 0, and every pixel whose brightness
\* is below the threshold is -1.
C35_EveryCellAssigned ==
    call.fn = "detectRegions" =>
        \A x \in 0 .. regionMap.width - 1, y \in 0 .. regionMap.height - 1 :
           /\ regionMap.pixelToRegion[y][x] # 0
           /\ \/ regionMap.pixelToRegion[y][x] = BOUNDARY
              \/ regionMap.pixelToRegion[y][x] \in 1 .. regionMap.regionCount
           /\ isBoundaryPixel(getPixelColor(call.imageData, x, y), BOUNDARY_THRESHOLD) =>
                 regionMap.pixelToRegion[y][x] = BOUNDARY

\* C35 witness: a map with a dark pixel, a kept region, and, after it in scan
\* order, a light area that was discarded
C35_Witness ==
    /\ call.fn = "detectRegions"
    /\ regionMap.regionCount >= 1
    /\ \E x \in 0 .. regionMap.width - 1, y \in 0 .. regionMap.height - 1 :
          isBoundaryPixel(getPixelColor(call.imageData, x, y), BOUNDARY_THRESHOLD)
    /\ \E x \in 0 .. regionMap.width - 1, y \in 0 .. regionMap.height - 1 :
          /\ ~isBoundaryPixel(getPixelColor(call.imageData, x, y), BOUNDARY_THRESHOLD)
          /\ regionMap.pixelToRegion[y][x] = BOUNDARY
          /\ \E x1 \in 0 .. regionMap.width - 1, y1 \in 0 .. regionMap.height - 1 :
                /\ regionMap.pixelToRegion[y1][x1] = regionMap.regionCount
                /\ y1 * regionMap.width + x1 < y * regionMap.width + x

\* what is stored in a stack before and after a step is the same, entry by
\* entry, as far as both stacks reach
StoredSnapshotsKept(stack, stackAfter) ==
    \A k \in 1 .. Min(Len(stack), Len(stackAfter)) : stackAfter[k] = stack[k]

BetweenDownAndUp == buttons = 1 /\ gesture \in {"locked", "free"}

\* C37: the history stacks change only at an accepted pointerdown or by
\* undo, redo or clear; a move, leave or enter never changes them; and undo,
\* redo and clear change them only while no gesture is between its
\* pointerdown and its pointerup.
C37_StacksChangeAtStrokeBoundaries ==
    [][ histVars' # histVars =>
          /\ lastEvent' \in {"pointerdown", "undo", "redo", "clear"}
          /\ lastEvent' \in {"undo", "redo", "clear"} => ~BetweenDownAndUp ]_vars

\* layers whose mask is opaque at pixel (x, y) of the region map
OpaqueLayersAt(x, y) ==
    { k \in 1 .. Len(layers) :
        layers[k].mask.data[y * layers[k].mask.width + x].a = OPAQUE_ALPHA }

\* C38: the table DrawingScreen builds for the canvas has the width and the
\* height of the region map and of the layer masks, and hit-testing through
\* it finds at every pixel of the map the one layer whose mask is opaque
\* there, and no layer where no mask is opaque, whatever the size of the
\* outline image.
C38_CanvasTableAgreesWithMasks ==
    call.fn = "createLayerLookupTable" =>
        /\ lookupTable.width = regionMap.width
        /\ lookupTable.height = regionMap.height
        /\ \A k \in 1 .. Len(layers) :
             /\ lookupTable.width = layers[k].mask.width
             /\ lookupTable.height = layers[k].mask.height
        /\ \A x \in 0 .. regionMap.width - 1, y \in 0 .. regionMap.height - 1 :
             LET found == findLayerAtPoint(layers, 2 * x, 2 * y, lookupTable)
             IN  /\ (found = 0) <=> (OpaqueLayersAt(x, y) = {})
                 /\ found # 0 => OpaqueLayersAt(x, y) = {found}

-----------------------------------------------------------------------------
(* unnamed/part_002: detectRegions and floodFillRegion, one loop iteration  *)
(* at a time.  detect.pc is where detectRegions stands: "entry" before the  *)
(* boundary pixels are marked, "scan" in the raster loops, "fill" while it  *)
(* waits for floodFillRegion, "done" once it has returned.  detect.starts   *)
(* records the pixels floodFillRegion was called on; no code reads it.      *)

\* floodFillRegion without `if (visited.has(key)) continue` and without
\* `if (pixelToRegion[y][x] !== 0) continue`
floodFillIterationWithoutGuards(f, pixelToRegion, width, height) ==
    LET p      == f.stack[Len(f.stack)]
        popped == SubSeq(f.stack, 1, Len(f.stack) - 1)
    IN  IF p.x < 0 \/ p.x >= width \/ p.y < 0 \/ p.y >= height
        THEN [fill |-> [f EXCEPT !.stack = popped], pixelToRegion |-> pixelToRegion]
        ELSE [fill |-> [f EXCEPT !.stack = popped \o <<[x |-> p.x + 1, y |-> p.y],
                                                         [x |-> p.x - 1, y |-> p.y],
                                                         [x |-> p.x, y |-> p.y + 1],
                                                         [x |-> p.x, y |-> p.y - 1]>>,
                                 !.visited = @ \cup {<<p.x, p.y>>},
                                 !.pixels = Append(@, p)],
              pixelToRegion |-> [pixelToRegion EXCEPT ![p.y][p.x] = f.regionId]]

\* one iteration of `while (stack.length > 0)`: f is the frame of
\* floodFillRegion, pixelToRegion the caller's array, which it marks.  The
\* key `${x},${y}` of the visited set is the pair <<x, y>>
floodFillIteration(f, pixelToRegion, width, height) ==
    LET p      == f.stack[Len(f.stack)]
        popped == SubSeq(f.stack, 1, Len(f.stack) - 1)
    IN  IF p.x < 0 \/ p.x >= width \/ p.y < 0 \/ p.y >= height
        THEN [fill |-> [f EXCEPT !.stack = popped], pixelToRegion |-> pixelToRegion]
        ELSE IF <<p.x, p.y>> \in f.visited
        THEN [fill |-> [f EXCEPT !.stack = popped], pixelToRegion |-> pixelToRegion]
        ELSE IF pixelToRegion[p.y][p.x] # 0
        THEN [fill |-> [f EXCEPT !.stack = popped,
                                 !.visited = @ \cup {<<p.x, p.y>>}],
              pixelToRegion |-> pixelToRegion]
        ELSE [fill |-> [f EXCEPT !.stack = popped \o <<[x |-> p.x + 1, y |-> p.y],
                                                         [x |-> p.x - 1, y |-> p.y],
                                                         [x |-> p.x, y |-> p.y + 1],
                                                         [x |-> p.x, y |-> p.y - 1]>>,
                                 !.visited = @ \cup {<<p.x, p.y>>},
                                 !.pixels = Append(@, p)],
              pixelToRegion |-> [pixelToRegion EXCEPT ![p.y][p.x] = f.regionId]]

\* x++ of the inner loop, and y++ with x = 0 at the end of a row
NextPixel(d) ==
    IF d.x + 1 < d.imageData.width
    THEN [d EXCEPT !.x = d.x + 1]
    ELSE [d EXCEPT !.x = 0, !.y = d.y + 1]

SegmentInit ==
    /\ regionMap = NoRegionMap
    /\ layers = <<>>
    /\ surface = <<>>
    /\ lookupTable = NoLookupTable
    /\ isDrawing = FALSE
    /\ activeLayerRef = 0
    /\ lastPointRef = <<>>
    /\ hasMovedRef = FALSE
    /\ hasStateCapturedRef = FALSE
    /\ lastGlobalPositionRef = <<>>
    /\ lastEventTimeRef = 0
    /\ undoStackRef = <<>>
    /\ redoStackRef = <<>>
    /\ rafQueue = <<>>
    /\ stayWithinLines = TRUE
    /\ overCanvas = FALSE
    /\ buttons = 0
    /\ gesture = "none"
    /\ nEvents = 0
    /\ lastEvent = "mount"
    /\ phase = "idle"
    /\ preGesture = <<>>
    /\ snapshotTaken = FALSE
    /\ call = NoCall
    /\ selectedImage = 0
    /\ processedData = <<>>
    /\ pending = NoPending
    /\ lockedRegionId = 0
    /\ segmentedPath = NoPath
    /\ \E imageData \in InputImages, minRegionSize \in 1 .. MaxMinRegionSize :
         detect = [pc |-> "entry", imageData |-> imageData,
                   minRegionSize |-> minRegionSize, pixelToRegion |-> <<>>,
                   x |-> 0, y |-> 0, currentRegionId |-> 1, regionCount |-> 0,
                   starts |-> <<>>]
    /\ fill = NoFill

\* the array of zeros and the loops marking the boundary pixels
DetectRegionsMarkBoundaries ==
    /\ detect.pc = "entry"
    /\ detect' = [detect EXCEPT
                    !.pc = "scan",
                    !.pixelToRegion =
                       [y \in 0 .. detect.imageData.height - 1 |->
                          [x \in 0 .. detect.imageData.width - 1 |->
                             IF isBoundaryPixel(getPixelColor(detect.imageData, x, y),
                                                BOUNDARY_THRESHOLD)
                             THEN BOUNDARY ELSE 0]]]
    /\ UNCHANGED <<libVars, stateVars, histVars, rafQueue, stayWithinLines, envVars,
                   stepVars, ghostVars, call, appVars, tolVars, fill>>

\* one pass of the body of the raster loops: skip an assigned pixel, or call
\* floodFillRegion on an unassigned one
DetectRegionsScan ==
    /\ detect.pc = "scan"
    /\ detect.y < detect.imageData.height
    /\ IF detect.pixelToRegion[detect.y][detect.x] # 0
       THEN /\ detect' = NextPixel(detect)
            /\ UNCHANGED fill
       ELSE /\ detect' = [detect EXCEPT
                            !.pc = "fill",
                            !.starts = Append(@, [x |-> detect.x, y |-> detect.y])]
            /\ fill' = [stack    |-> <<[x |-> detect.x, y |-> detect.y]>>,
                        visited  |-> {},
                        pixels   |-> <<>>,
                        regionId |-> detect.currentRegionId]
    /\ UNCHANGED <<libVars, stateVars, histVars, rafQueue, stayWithinLines, envVars,
                   stepVars, ghostVars, call, appVars, tolVars>>

FloodFillIteration ==
    /\ detect.pc = "fill"
    /\ fill.stack # <<>>
    /\ LET after == floodFillIteration(fill, detect.pixelToRegion,
                                       detect.imageData.width, detect.imageData.height)
       IN  /\ fill' = after.fill
           /\ detect' = [detect EXCEPT !.pixelToRegion = after.pixelToRegion]
    /\ UNCHANGED <<libVars, stateVars, histVars, rafQueue, stayWithinLines, envVars,
                   stepVars, ghostVars, call, appVars, tolVars>>

\* floodFillRegion returns its pixels; detectRegions keeps the region or marks
\* its pixels as boundary, and goes on to the next pixel
FloodFillReturn ==
    /\ detect.pc = "fill"
    /\ fill.stack = <<>>
    /\ LET regionPixels == fill.pixels
           d == NextPixel([detect EXCEPT !.pc = "scan"])
       IN  IF Len(regionPixels) >= detect.minRegionSize
           THEN detect' = [d EXCEPT !.regionCount = @ + 1, !.currentRegionId = @ + 1]
           ELSE detect' = [d EXCEPT !.pixelToRegion =
                              MarkRegion(detect.pixelToRegion,
                                         { <<regionPixels[i].x, regionPixels[i].y>> :
                                             i \in 1 .. Len(regionPixels) },
                                         BOUNDARY)]
    /\ UNCHANGED <<libVars, stateVars, histVars, rafQueue, stayWithinLines, envVars,
                   stepVars, ghostVars, call, appVars, tolVars, fill>>

\* the raster loops are over: detectRegions returns the RegionMap
DetectRegionsReturn ==
    /\ detect.pc = "scan"
    /\ detect.y >= detect.imageData.height
    /\ regionMap' = [width         |-> detect.imageData.width,
                     height        |-> detect.imageData.height,
                     regionCount   |-> detect.regionCount,
                     pixelToRegion |-> detect.pixelToRegion]
    /\ detect' = [detect EXCEPT !.pc = "done"]
    /\ call' = [fn            |-> "detectRegions",
                imageData     |-> detect.imageData,
                minRegionSize |-> detect.minRegionSize]
    /\ UNCHANGED <<layers, surface, lookupTable, stateVars, histVars, rafQueue,
                   stayWithinLines, envVars, stepVars, ghostVars, appVars, tolVars, fill>>

NextSegment ==
    \/ DetectRegionsMarkBoundaries
    \/ DetectRegionsScan
    \/ FloodFillIteration
    \/ FloodFillReturn
    \/ DetectRegionsReturn

\* detectRegions is synchronous code: once called, every iteration that can
\* run does run
SpecSegment == SegmentInit /\ [][NextSegment]_vars /\ WF_vars(NextSegment)

NoDuplicates(seq) ==
    \A i, j \in 1 .. Len(seq) : seq[i] = seq[j] => i = j

\* the shape of a RegionMap over the pixels of the image
IsRegionMap(rm, imageData) ==
    /\ rm.width = imageData.width
    /\ rm.height = imageData.height
    /\ rm.regionCount \in Nat
    /\ DOMAIN rm.pixelToRegion = 0 .. imageData.height - 1
    /\ \A y \in 0 .. imageData.height - 1 :
         /\ DOMAIN rm.pixelToRegion[y] = 0 .. imageData.width - 1
         /\ \A x \in 0 .. imageData.width - 1 : rm.pixelToRegion[y][x] \in Int

\* C39: segmentation terminates on every image.  Within one flood-fill run no
\* pixel is added to the run's pixels twice, and the run comes to an empty
\* stack; the raster scan starts no two runs at the same pixel; detectRegions
\* comes to its return, and what it returns is a RegionMap of the image.
C39_SegmentationTerminates ==
    /\ [](/\ NoDuplicates(fill.pixels)
          /\ detect.pc # "none" => NoDuplicates(detect.starts)
          /\ detect.pc = "done" => IsRegionMap(regionMap, detect.imageData))
    /\ (detect.pc = "fill") ~> (detect.pc = "fill" /\ fill.stack = <<>>)
    /\ <>(detect.pc = "done")

\* C39 witness: detectRegions has returned a map of two regions, after runs
\* started at three pixels or more (one of them discarded as too small)
C39_Witness ==
    /\ detect.pc = "done"
    /\ regionMap.regionCount = 2
    /\ Len(detect.starts) >= 3
    /\ Len(fill.pixels) >= 2

====
